---- MODULE Spec2Model ----
(***************************************************************************)
(* Model of the shadow trading engine of lwittchen/arthur                  *)
(* (src/src/backtest.py) together with the order-book view it prices from  *)
(* (src/src/data_center.py), the strategies that produce its target        *)
(* positions (src/src/strategies.py) and the loop that drives them         *)
(* (src/src/main.py).                                                      *)
(*                                                                         *)
(* Prices and positions are integers (ticks and units) and resting volumes  *)
(* decimals. The program computes with Python floats on the same           *)
(* expressions; the model computes exactly, except where a comparison of   *)
(* floats decides which entries of the book a price is taken over: there   *)
(* it computes in binary64 as the program does.                            *)
(***************************************************************************)
EXTENDS Integers, Sequences, FiniteSets, TLC

\* ------------------------------------------------------------------ bounds
\* Largest absolute position a caller asks for.
MaxPos == 2
\* Largest number of executed orders kept in the ledger of a run.
MaxOrders == 3

\* ------------------------------------------------------------ market data
\* Order-book sides as kraken_client.parse_orderbook_into_arr delivers them:
\* bids sorted by descending price, asks by ascending price.
\* An entry rests a volume of v / den at the price p, den a power of ten:
\* the exchange writes the volume as a decimal.
DecimalLevel(p, v, den) == [price |-> p, volume |-> v, volume_den |-> den]
Level(p, v) == DecimalLevel(p, v, 1)
Levels == [price : Nat, volume : Nat, volume_den : Nat]

BookA == [bids |-> <<Level(19, 1), Level(18, 1)>>,
          asks |-> <<Level(21, 1), Level(22, 1)>>]
BookB == [bids |-> <<Level(20, 2), Level(17, 1)>>,
          asks |-> <<Level(23, 1), Level(24, 3)>>]

\* DataCenter.get_market_data: dict(time=..., order_book=..., ...)
Snapshots == { [time |-> 1, order_book |-> BookA],
               [time |-> 2, order_book |-> BookB] }

\* Backtest.__init__: self.market_state = {}
EmptyState == [x \in {} |-> 0]

\* Positions a caller may ask for.
DesiredPositions == (0 - MaxPos)..MaxPos

\* OrderBook.best_bid: self.bids["price"][0]
best_bid(ob) == ob.bids[1].price

\* OrderBook.best_ask: self.asks["price"][0]
best_ask(ob) == ob.asks[1].price

\* ------------------------------------------------------------------ orders
Abs(x) == IF x < 0 THEN 0 - x ELSE x

RECURSIVE SumSeq(_)
\* np.sum over a list of numbers
SumSeq(s) == IF s = <<>> THEN 0 ELSE Head(s) + SumSeq(Tail(s))

\* Order.__init__ that keeps the sign of the volume (np.abs forgotten)
Order_signed_volume(order_id, side, trade_price, volume) ==
    [order_id |-> order_id, side |-> side,
     trade_price |-> trade_price, volume |-> volume]

\* Order.__init__: the volume is stored as np.abs(volume)
Order(order_id, side, trade_price, volume) ==
    [order_id |-> order_id, side |-> side,
     trade_price |-> trade_price, volume |-> Abs(volume)]

\* Order.get_cashflow
get_cashflow(order) ==
    LET factor == IF order.side = "sell" THEN 1 ELSE 0 - 1
    IN  order.trade_price * order.volume * factor

\* The "-" that get_last_order returns for an empty ledger.
NoOrder == [order_id |-> 0, side |-> "-", trade_price |-> 0, volume |-> 0]

\* ------------------------------------------------------------------- state
VARIABLES
    current_position,   \* Backtest.current_position
    cashflows,          \* Backtest.cashflows, newest first
    turnover,           \* Backtest.turnover, newest first
    all_orders,         \* Backtest.all_orders, newest first
    market_state,       \* Backtest.market_state
    last_call           \* the latest call on the Backtest and its outcome

vars == <<current_position, cashflows, turnover, all_orders,
          market_state, last_call>>

\* A call record: which method, its argument, whether it raised, what it
\* returned, and the position and cashflow sum the call started from.
Call(op, arg, raised, value, order) ==
    [op |-> op, arg |-> arg, raised |-> raised, value |-> value,
     order |-> order,
     pos_before |-> current_position,
     realized_before |-> SumSeq(cashflows)]

\* market_state["order_book"] raises KeyError on the initial empty dict
HasKey(key) == key \in DOMAIN market_state

\* Backtest.__init__
Init ==
    /\ current_position = 0
    /\ cashflows = <<>>
    /\ turnover = <<>>
    /\ all_orders = <<>>
    /\ market_state = EmptyState
    /\ last_call = [op |-> "init", arg |-> 0, raised |-> FALSE, value |-> 0,
                    order |-> NoOrder, pos_before |-> 0,
                    realized_before |-> 0]

\* update_market_state that starts over from a flat position
update_market_state_resetting(snapshot) ==
    /\ market_state' = snapshot
    /\ current_position' = 0
    /\ last_call' = Call("update_market_state", snapshot.time, FALSE, 0, NoOrder)
    /\ UNCHANGED <<cashflows, turnover, all_orders>>

\* Backtest.update_market_state
update_market_state(snapshot) ==
    /\ market_state' = snapshot
    /\ last_call' = Call("update_market_state", snapshot.time, FALSE, 0, NoOrder)
    /\ UNCHANGED <<current_position, cashflows, turnover, all_orders>>

\* order side with buy and sell exchanged
order_side_inverted(volume) == IF volume > 0 THEN "sell" ELSE "buy"

\* Backtest._execute_order, the part up to the Order: side and price of the
\* aggressive order for a non-zero volume.
order_side(volume) == IF volume > 0 THEN "buy" ELSE "sell"

\* order price with the two sides of the book exchanged
order_price_swapped(volume) ==
    IF volume > 0 THEN best_bid(market_state.order_book)
                  ELSE best_ask(market_state.order_book)

\* order price that crosses no spread: the offer for both sides
order_price_no_spread(volume) == best_ask(market_state.order_book)

order_price(volume) ==
    IF volume > 0 THEN best_ask(market_state.order_book)
                  ELSE best_bid(market_state.order_book)

\* _execute_order that records the signed volume as turnover
execute_order_signed_turnover(volume) ==
    LET order == Order(market_state.time, order_side(volume),
                       order_price(volume), volume)
    IN  /\ cashflows' = <<get_cashflow(order)>> \o cashflows
        /\ turnover' = <<volume>> \o turnover
        /\ all_orders' = <<order>> \o all_orders

\* _execute_order that appends to the three lists instead of inserting at 0
execute_order_appending(volume) ==
    LET order == Order(market_state.time, order_side(volume),
                       order_price(volume), volume)
    IN  /\ cashflows' = Append(cashflows, get_cashflow(order))
        /\ turnover' = Append(turnover, Abs(volume))
        /\ all_orders' = Append(all_orders, order)

\* Backtest._execute_order: the order and the three inserts at index 0
execute_order(volume) ==
    LET order == Order(market_state.time, order_side(volume),
                       order_price(volume), volume)
    IN  /\ cashflows' = <<get_cashflow(order)>> \o cashflows
        /\ turnover' = <<Abs(volume)>> \o turnover
        /\ all_orders' = <<order>> \o all_orders

\* volume to trade taken to be the desired position itself
volume_to_trade_absolute(desired_position) == desired_position

\* Backtest.rebalance_position, its first line: the volume to trade
volume_to_trade(desired_position) == desired_position - current_position

\* Backtest.rebalance_position
rebalance_position(desired_position) ==
    LET volume == volume_to_trade(desired_position)
    IN  IF volume # 0
        THEN IF HasKey("order_book")
             THEN /\ Len(all_orders) < MaxOrders
                  /\ execute_order(volume)
                  /\ current_position' = desired_position
                  /\ last_call' = Call("rebalance_position", desired_position,
                                       FALSE, 0, NoOrder)
                  /\ UNCHANGED market_state
             ELSE \* KeyError in _execute_order, before any assignment
                  /\ last_call' = Call("rebalance_position", desired_position,
                                       TRUE, 0, NoOrder)
                  /\ UNCHANGED <<current_position, cashflows, turnover,
                                 all_orders, market_state>>
        ELSE /\ last_call' = Call("rebalance_position", desired_position,
                                  FALSE, 0, NoOrder)
             /\ UNCHANGED <<current_position, cashflows, turnover,
                            all_orders, market_state>>

\* Backtest.current_position_value: whether it raises, and its value
position_value_raises ==
    current_position # 0 /\ ~HasKey("order_book")

\* position value marked at the bid whatever the side of the position
current_position_value_at_bid ==
    current_position * best_bid(market_state.order_book)

\* position value marked at the side the position was opened on
current_position_value_entry_side ==
    IF current_position > 0
    THEN current_position * best_ask(market_state.order_book)
    ELSE IF current_position < 0
         THEN current_position * best_bid(market_state.order_book)
         ELSE 0

current_position_value ==
    IF current_position > 0
    THEN current_position * best_bid(market_state.order_book)
    ELSE IF current_position < 0
         THEN current_position * best_ask(market_state.order_book)
         ELSE 0

\* Backtest.get_current_profit
get_current_profit_value == SumSeq(cashflows) + current_position_value

get_current_profit ==
    /\ last_call' = IF position_value_raises
                    THEN Call("get_current_profit", 0, TRUE, 0, NoOrder)
                    ELSE Call("get_current_profit", 0, FALSE,
                              get_current_profit_value, NoOrder)
    /\ UNCHANGED <<current_position, cashflows, turnover, all_orders,
                   market_state>>

\* A direct call of Backtest.current_position_value
call_current_position_value ==
    /\ last_call' = IF position_value_raises
                    THEN Call("current_position_value", 0, TRUE, 0, NoOrder)
                    ELSE Call("current_position_value", 0, FALSE,
                              current_position_value, NoOrder)
    /\ UNCHANGED <<current_position, cashflows, turnover, all_orders,
                   market_state>>

\* Backtest.get_last_order
\* get_last_order reading the other end of the list
get_last_order_value_oldest ==
    IF all_orders # <<>> THEN all_orders[Len(all_orders)] ELSE NoOrder

get_last_order_value ==
    IF all_orders # <<>> THEN all_orders[1] ELSE NoOrder

get_last_order ==
    /\ last_call' = Call("get_last_order", 0, FALSE, 0, get_last_order_value)
    /\ UNCHANGED <<current_position, cashflows, turnover, all_orders,
                   market_state>>

\* =========================================================== market views
\* src/src/data_center.py: the order-book and trade-bar views, fed by
\* src/src/kraken_client.py.

\* ---------------------------------------------------------------- numbers
\* What a call on a view gives back: a number, None, or an exception.
Returned(x) == [kind |-> "value", value |-> x]
ReturnedNone == [kind |-> "None"]
Raised == [kind |-> "raise"]
ValueOf(r) == r.value

\* ----------------------------------------------------------------- floats
\* The volumes and every number computed from them (sums, the depth
\* target, the prices obwa returns, the imbalances and their means) are
\* IEEE-754 binary64 numbers (numpy float64 and Python float), rounded to
\* nearest, ties to even, after every operation. A natural number of any
\* size is its sequence of limbs of LimbBits bits, lowest first and without
\* leading zeros; a finite float is +-mant * 2^exp with a mantissa of
\* exactly MantissaBits bits (zero: the empty mantissa, with neg FALSE: no
\* operation of the program yields -0.0). Numbers so large or small that
\* the exponent range matters (overflow, subnormals) do not occur.
MantissaBits == 53
LimbBits == 15
LimbBase == 2^LimbBits

Limbs == Seq(0..(LimbBase - 1))
Magnitudes == [mant : Limbs, exp : Int]
FloatKinds == {"num", "inf", "nan"}
Floats == [kind : FloatKinds, neg : BOOLEAN, mant : Limbs, exp : Int]
\* a quotient with its remainder, and one with the note that bits were lost
Divided == [quot : Limbs, rem : Nat]
Shifted == [quot : Limbs, lost : BOOLEAN]
LongDivided == [quot : Limbs, rem : Limbs]
SignedNats == [neg : BOOLEAN, mant : Limbs]

NatOfInt[n \in Nat] ==
    IF n = 0 THEN <<>> ELSE <<n % LimbBase>> \o NatOfInt[n \div LimbBase]

\* x without leading zero limbs
NatTrim[x \in Limbs] ==
    IF x = <<>> \/ x[Len(x)] # 0 THEN x
    ELSE NatTrim[SubSeq(x, 1, Len(x) - 1)]

LimbAt(x, i) == IF i <= Len(x) THEN x[i] ELSE 0

NatAddFrom[x \in Limbs, y \in Limbs, i \in Nat, carry \in 0..1] ==
    IF i > Len(x) /\ i > Len(y)
    THEN IF carry = 0 THEN <<>> ELSE <<carry>>
    ELSE LET s == LimbAt(x, i) + LimbAt(y, i) + carry
         IN  <<s % LimbBase>> \o NatAddFrom[x, y, i + 1, s \div LimbBase]

NatAdd[x \in Limbs, y \in Limbs] == NatAddFrom[x, y, 1, 0]

\* x < y on the limbs 1..i, from the highest down
NatLessFrom[x \in Limbs, y \in Limbs, i \in Nat] ==
    IF i = 0 THEN FALSE
    ELSE IF x[i] # y[i] THEN x[i] < y[i]
    ELSE NatLessFrom[x, y, i - 1]

NatLess[x \in Limbs, y \in Limbs] ==
    IF Len(x) # Len(y) THEN Len(x) < Len(y) ELSE NatLessFrom[x, y, Len(x)]

NatSubFrom[x \in Limbs, y \in Limbs, i \in Nat, borrow \in 0..1] ==
    IF i > Len(x) THEN <<>>
    ELSE LET s == LimbBase + x[i] - LimbAt(y, i) - borrow
         IN  <<s % LimbBase>> \o NatSubFrom[x, y, i + 1, 1 - s \div LimbBase]

\* x - y for x >= y
NatSub[x \in Limbs, y \in Limbs] == NatTrim[NatSubFrom[x, y, 1, 0]]

NatMulFrom[x \in Limbs, k \in 0..LimbBase, i \in Nat, carry \in Nat] ==
    IF i > Len(x) THEN IF carry = 0 THEN <<>> ELSE <<carry>>
    ELSE LET p == x[i] * k + carry
         IN  <<p % LimbBase>> \o NatMulFrom[x, k, i + 1, p \div LimbBase]

\* x * k
NatMulSmall[x \in Limbs, k \in 0..LimbBase] == NatTrim[NatMulFrom[x, k, 1, 0]]

\* Long division by d from limb i down, rem being left from the limbs
\* above and quot their quotient.
NatDivFrom[x \in Limbs, d \in 1..LimbBase, i \in Nat, rem \in Nat, quot \in Limbs] ==
    IF i = 0 THEN [quot |-> NatTrim[quot], rem |-> rem]
    ELSE LET n == rem * LimbBase + x[i]
         IN  NatDivFrom[x, d, i - 1, n % d, <<n \div d>> \o quot]

\* quotient and remainder of x by d
NatDivSmall[x \in Limbs, d \in 1..LimbBase] ==
    NatDivFrom[x, d, Len(x), 0, <<>>]

\* The largest digit q + n, n < 2^(b + 1), with (q + n) * y <= r
NatDigitFrom[r \in Limbs, y \in Limbs, q \in Nat, b \in Int] ==
    IF b < 0 THEN q
    ELSE IF NatLess[r, NatMulSmall[y, q + 2^b]]
    THEN NatDigitFrom[r, y, q, b - 1]
    ELSE NatDigitFrom[r, y, q + 2^b, b - 1]

\* The digit d put under the quotient, and what d * y leaves of r
NatDivPush[quot \in Limbs, r \in Limbs, y \in Limbs, d \in Nat] ==
    [quot |-> <<d>> \o quot, rem |-> NatSub[r, NatMulSmall[y, d]]]

\* Long division by y from limb i down, acc holding the quotient of the
\* limbs above and what they left.
NatDivLong[x \in Limbs, y \in Limbs, i \in Nat, acc \in LongDivided] ==
    IF i = 0 THEN [quot |-> NatTrim[acc.quot], rem |-> acc.rem]
    ELSE NatDivLong[x, y, i - 1,
            NatDivPush[acc.quot, NatTrim[<<x[i]>> \o acc.rem], y,
                NatDigitFrom[NatTrim[<<x[i]>> \o acc.rem], y, 0,
                             LimbBits - 1]]]

\* quotient and remainder of x by y > 0
NatDiv[x \in Limbs, y \in Limbs] ==
    NatDivLong[x, y, Len(x), [quot |-> <<>>, rem |-> <<>>]]

BitLength[n \in Nat] == IF n = 0 THEN 0 ELSE 1 + BitLength[n \div 2]

NatBitLength[x \in Limbs] ==
    IF x = <<>> THEN 0 ELSE (Len(x) - 1) * LimbBits + BitLength[x[Len(x)]]

\* x * 2^s
NatShiftLeft[x \in Limbs, s \in Nat] ==
    IF x = <<>> THEN <<>>
    ELSE [i \in 1..(s \div LimbBits) |-> 0] \o NatMulSmall[x, 2^(s % LimbBits)]

\* x \div 2^s, and whether bits were lost: d is the division of the limbs
\* above the lowest ones by what is left of 2^s
NatShiftedRight[x \in Limbs, limbs \in Nat, d \in Divided] ==
    [quot |-> d.quot,
     lost |-> d.rem # 0 \/ \E i \in 1..limbs : LimbAt(x, i) # 0]

NatShiftRight[x \in Limbs, s \in Nat] ==
    NatShiftedRight[x, s \div LimbBits,
                    NatDivSmall[SubSeq(x, s \div LimbBits + 1, Len(x)),
                                2^(s % LimbBits)]]

\* m * 2^e for a mantissa of MantissaBits bits, or of one more with a last
\* bit of zero
FloatNormal[m \in Limbs, e \in Int] ==
    IF NatBitLength[m] > MantissaBits
    THEN [mant |-> NatDivSmall[m, 2].quot, exp |-> e + 1]
    ELSE [mant |-> m, exp |-> e]

\* Round to nearest, ties to even: halved is n \div 2 and n % 2 of an n of
\* MantissaBits + 1 bits, and the exact value lies above n * 2^(e - 1) by
\* less than 2^(e - 1) when sticky.
FloatRoundUp[halved \in Divided, e \in Int, sticky \in BOOLEAN] ==
    FloatNormal[IF halved.rem = 1 /\ (sticky \/ halved.quot[1] % 2 = 1)
                THEN NatAdd[halved.quot, <<1>>] ELSE halved.quot, e]

\* The same for guarded, the n of MantissaBits + 1 bits and whether bits
\* under it were lost.
FloatRoundHalf[guarded \in Shifted, e \in Int, sticky \in BOOLEAN] ==
    FloatRoundUp[NatDivSmall[guarded.quot, 2], e + 1, sticky \/ guarded.lost]

\* The magnitude nearest to n * 2^e for an n of len bits
FloatRoundTo[n \in Limbs, len \in Nat, e \in Int, sticky \in BOOLEAN] ==
    IF len = 0 THEN [mant |-> <<>>, exp |-> 0]
    ELSE IF len <= MantissaBits
    THEN [mant |-> NatShiftLeft[n, MantissaBits - len],
          exp |-> e - (MantissaBits - len)]
    ELSE FloatRoundHalf[NatShiftRight[n, len - MantissaBits - 1],
                        e + len - MantissaBits - 1, sticky]

\* The magnitude nearest to the exact value, ties to even: the exact value
\* is n * 2^e, or above it by less than 2^e when sticky.
FloatRound[n \in Limbs, e \in Int, sticky \in BOOLEAN] ==
    FloatRoundTo[n, NatBitLength[n], e, sticky]

FloatZero == [kind |-> "num", neg |-> FALSE, mant |-> <<>>, exp |-> 0]
FloatNaN == [kind |-> "nan", neg |-> FALSE, mant |-> <<>>, exp |-> 0]
FloatInf(neg) == [kind |-> "inf", neg |-> neg, mant |-> <<>>, exp |-> 0]

\* The float of a sign and a magnitude
FloatSigned[neg \in BOOLEAN, mag \in Magnitudes] ==
    [kind |-> "num", neg |-> neg /\ mag.mant # <<>>,
     mant |-> mag.mant, exp |-> mag.exp]

\* float(n) of a Python int n >= 0
FloatOfInt[n \in Nat] == FloatSigned[FALSE, FloatRound[NatOfInt[n], 0, FALSE]]

\* -a
FloatNeg[a \in Floats] ==
    IF a.kind = "nan" \/ (a.kind = "num" /\ a.mant = <<>>) THEN a
    ELSE [a EXCEPT !.neg = ~a.neg]

\* The sum of +-x and +-y
NatSignedSum[xneg \in BOOLEAN, x \in Limbs, yneg \in BOOLEAN, y \in Limbs] ==
    IF xneg = yneg THEN [neg |-> xneg, mant |-> NatAdd[x, y]]
    ELSE IF NatLess[x, y] THEN [neg |-> yneg, mant |-> NatSub[y, x]]
    ELSE [neg |-> xneg, mant |-> NatSub[x, y]]

FloatOfSum[s \in SignedNats, e \in Int] ==
    FloatSigned[s.neg, FloatRound[s.mant, e, FALSE]]

\* a + b of two finite floats other than zero, e the smaller exponent
FloatAddAt[a \in Floats, b \in Floats, e \in Int] ==
    FloatOfSum[NatSignedSum[a.neg, NatShiftLeft[a.mant, a.exp - e],
                            b.neg, NatShiftLeft[b.mant, b.exp - e]], e]

\* a + b in float64
FloatAdd[a \in Floats, b \in Floats] ==
    IF a.kind = "nan" \/ b.kind = "nan" THEN FloatNaN
    ELSE IF a.kind = "inf"
    THEN IF b.kind = "inf" /\ a.neg # b.neg THEN FloatNaN ELSE a
    ELSE IF b.kind = "inf" THEN b
    ELSE IF a.mant = <<>> THEN b
    ELSE IF b.mant = <<>> THEN a
    ELSE FloatAddAt[a, b, IF a.exp < b.exp THEN a.exp ELSE b.exp]

\* a - b in float64
FloatSub[a \in Floats, b \in Floats] == FloatAdd[a, FloatNeg[b]]

\* a * k in float64 for a float k that holds a small integer: a Python
\* int, or a price in ticks
FloatMulInt[a \in Floats, k \in 0..LimbBase] ==
    IF a.kind = "nan" \/ (a.kind = "inf" /\ k = 0) THEN FloatNaN
    ELSE IF a.kind = "inf" THEN a
    ELSE FloatSigned[a.neg, FloatRound[NatMulSmall[a.mant, k], a.exp, FALSE]]

\* The magnitude nearest to the quotient q of a division, times 2^e
FloatQuotient[q \in Divided, e \in Int] ==
    FloatRound[q.quot, e, q.rem # 0]

\* a / d in float64 for a Python int d > 0: the quotient to more than
\* MantissaBits + 1 bits, with the remainder as the sticky bit
FloatDivInt[a \in Floats, d \in 1..(LimbBase - 1)] ==
    IF a.kind # "num" THEN a
    ELSE FloatSigned[a.neg,
            FloatQuotient[NatDivSmall[NatShiftLeft[a.mant, LimbBits + 2], d],
                          a.exp - (LimbBits + 2)]]

FloatLongQuotient[q \in LongDivided, e \in Int] ==
    FloatRound[q.quot, e, q.rem # <<>>]

\* a / b in float64; a division by zero gives inf or nan (numpy warns and
\* does not raise)
FloatDiv[a \in Floats, b \in Floats] ==
    IF a.kind = "nan" \/ b.kind = "nan" THEN FloatNaN
    ELSE IF a.kind = "inf"
    THEN IF b.kind = "inf" THEN FloatNaN ELSE FloatInf(a.neg # b.neg)
    ELSE IF b.kind = "inf" THEN FloatZero
    ELSE IF b.mant = <<>>
    THEN IF a.mant = <<>> THEN FloatNaN ELSE FloatInf(a.neg)
    ELSE IF a.mant = <<>> THEN FloatZero
    ELSE FloatSigned[a.neg # b.neg,
            FloatLongQuotient[
                NatDiv[NatShiftLeft[a.mant, 4 * LimbBits], b.mant],
                a.exp - b.exp - 4 * LimbBits]]

\* |a| <= |b| for two floats that are no nan
FloatMagLeq[a \in Floats, b \in Floats] ==
    IF a.kind = "inf" THEN b.kind = "inf"
    ELSE IF b.kind = "inf" THEN TRUE
    ELSE IF a.mant = <<>> THEN TRUE
    ELSE IF b.mant = <<>> THEN FALSE
    ELSE IF a.exp # b.exp THEN a.exp < b.exp
    ELSE ~NatLess[b.mant, a.mant]

\* a <= b in float64: False when either is nan
FloatLeq[a \in Floats, b \in Floats] ==
    IF a.kind = "nan" \/ b.kind = "nan" THEN FALSE
    ELSE IF a.neg # b.neg THEN a.neg
    ELSE IF a.neg THEN FloatMagLeq[b, a]
    ELSE FloatMagLeq[a, b]

\* a < b in float64: False when either is nan
FloatLess[a \in Floats, b \in Floats] ==
    a.kind # "nan" /\ b.kind # "nan" /\ ~FloatLeq[b, a]

\* float of the decimal num/den, den a power of ten: the float nearest to
\* it, which is the quotient of the two integers rounded once
FloatOfDecimal[num \in Nat, den \in 1..(LimbBase - 1)] ==
    FloatDivInt[FloatOfInt[num], den]

\* The Python float n / d of two ints, d > 0
PyFloat(n, d) ==
    IF n < 0 THEN FloatNeg[FloatOfDecimal[0 - n, d]] ELSE FloatOfDecimal[n, d]

\* ------------------------------------------------------------------- feed
RECURSIVE InsertByPrice(_, _)
InsertByPrice(lvl, sorted) ==
    IF sorted = <<>> THEN <<lvl>>
    ELSE IF lvl.price <= Head(sorted).price THEN <<lvl>> \o sorted
    ELSE <<Head(sorted)>> \o InsertByPrice(lvl, Tail(sorted))

RECURSIVE SortByPrice(_)
\* arr[arr["price"].argsort()]: ascending by price
SortByPrice(arr) ==
    IF arr = <<>> THEN <<>>
    ELSE InsertByPrice(Head(arr), SortByPrice(Tail(arr)))

\* arr[::-1]
Reversed(arr) == [i \in 1..Len(arr) |-> arr[Len(arr) + 1 - i]]

\* parse_orderbook_into_arr that trusts the order the exchange sent
parse_orderbook_unsorted(orderbook) ==
    [bids |-> orderbook.bids, asks |-> orderbook.asks]

\* kraken_client.parse_orderbook_into_arr: bids descending, asks ascending
parse_orderbook_into_arr(orderbook) ==
    [bids |-> Reversed(SortByPrice(orderbook.bids)),
     asks |-> SortByPrice(orderbook.asks)]

\* Depth responses of the exchange, before parsing.
\* The ten-level book of tests/test_data_center.py:
RawTen == [bids |-> [i \in 1..10 |-> Level(20 - i, 1)],
           asks |-> [i \in 1..10 |-> Level(20 + i, 1)]]
\* the levels of BookA and BookB in another order:
RawA == [bids |-> <<Level(18, 1), Level(19, 1)>>,
         asks |-> <<Level(22, 1), Level(21, 1)>>]
RawB == [bids |-> <<Level(17, 1), Level(20, 2)>>,
         asks |-> <<Level(23, 1), Level(24, 3)>>]
\* uneven volumes, three levels a side:
RawC == [bids |-> <<Level(30, 3), Level(28, 1), Level(29, 2)>>,
         asks |-> <<Level(33, 2), Level(32, 1), Level(35, 5)>>]
\* decimal volumes, as the exchange quotes them:
RawDecimal == [bids |-> <<DecimalLevel(18, 40, 1000),
                          DecimalLevel(19, 71, 1000)>>,
               asks |-> <<DecimalLevel(21, 9, 10),
                          DecimalLevel(22, 25, 100)>>]
\* a side without resting orders:
RawNoBids == [bids |-> <<>>, asks |-> <<Level(21, 1), Level(22, 2)>>]
RawNoAsks == [bids |-> <<Level(19, 2), Level(18, 1)>>, asks |-> <<>>]

RawDepths == {RawTen, RawA, RawB, RawC, RawDecimal, RawNoBids, RawNoAsks}

\* OHLC responses (parse_ohlc_into_arr); of a bar the views read the
\* timestamp and the close.
Bar(ts, close) == [timestamp |-> ts, close |-> close]

OhlcFeeds == { <<>>,
               <<Bar(1, 20)>>,
               <<Bar(1, 18), Bar(2, 20), Bar(3, 22)>>,
               <<Bar(3, 21), Bar(1, 19), Bar(2, 25)>>,
               <<Bar(2, 17), Bar(5, 24), Bar(4, 30)>> }

\* ------------------------------------------------------------- OrderBook
\* arr["volume"]: the volumes as float64, as the parser stored them
Volumes(arr) ==
    [k \in 1..Len(arr) |-> FloatOfDecimal[arr[k].volume, arr[k].volume_den]]

\* arr["price"] * arr["volume"] in float64, entry by entry; a price is a
\* whole number of ticks
Notional(arr) ==
    [k \in 1..Len(arr) |-> FloatMulInt[Volumes(arr)[k], arr[k].price]]

\* res += a[k] for the entries from i on, in their order
SumFrom[res \in Floats, a \in Seq(Floats), i \in Nat] ==
    IF i > Len(a) THEN res ELSE SumFrom[FloatAdd[res, a[i]], a, i + 1]

\* a[k] + a[8 + k] + ... + a[8 * j + k], added in this order
LaneSum[a \in Seq(Floats), k \in 1..8, j \in Nat] ==
    IF j = 0 THEN a[k] ELSE FloatAdd[LaneSum[a, k, j - 1], a[8 * j + k]]

\* s[1] + s[2], s[3] + s[4], ...
PairSums[s \in Seq(Floats)] ==
    [i \in 1..(Len(s) \div 2) |-> FloatAdd[s[2 * i - 1], s[2 * i]]]

\* the sum of 2^n entries, added in pairs: ((s[1] + s[2]) + (s[3] + s[4]))
\* + ... for eight
SumInPairs[s \in Seq(Floats)] ==
    IF Len(s) = 1 THEN s[1] ELSE SumInPairs[PairSums[s]]

\* np.sum of a float64 array of up to 128 entries, in numpy's order of
\* additions: one after the other below eight entries; else eight running
\* sums over the blocks of eight, added in pairs, then the entries left
\* over one after the other.
np_sum[a \in Seq(Floats)] ==
    SumFrom[IF Len(a) < 8 THEN FloatZero
            ELSE SumInPairs[[k \in 1..8 |->
                                LaneSum[a, k, Len(a) \div 8 - 1]]],
            a, 8 * (Len(a) \div 8) + 1]

\* np.mean of a float64 array that is not empty: np.sum over the length
np_mean[a \in Seq(Floats)] == FloatDivInt[np_sum[a], Len(a)]

\* out[i] = out[i - 1] + a[i] from entry i on
CumsumFrom[a \in Seq(Floats), i \in Nat, out \in Seq(Floats)] ==
    IF i > Len(a) THEN out
    ELSE CumsumFrom[a, i + 1,
                    Append(out, IF i = 1 THEN a[1]
                                ELSE FloatAdd[out[i - 1], a[i]])]

\* np.cumsum of a float64 array
np_cumsum[a \in Seq(Floats)] == CumsumFrom[a, 1, <<>>]

\* a < b and a <= b of a float64 array and a float64, as the set of the
\* indices that hold True
less[a \in Seq(Floats), b \in Floats] ==
    {i \in 1..Len(a) : FloatLess[a[i], b]}
less_equal[a \in Seq(Floats), b \in Floats] ==
    {i \in 1..Len(a) : FloatLeq[a[i], b]}

\* The entries from i on that the mask idx selects, after those of out
MaskedFrom[a \in Seq(Floats), idx \in SUBSET Nat, i \in Nat, out \in Seq(Floats)] ==
    IF i > Len(a) THEN out
    ELSE MaskedFrom[a, idx, i + 1,
                    IF i \in idx THEN Append(out, a[i]) ELSE out]

\* a[idx] for a boolean mask idx: the entries it selects, in their order
Masked[a \in Seq(Floats), idx \in SUBSET Nat] == MaskedFrom[a, idx, 1, <<>>]

\* arr["volume"][idx] and arr["price"][idx] * arr["volume"][idx]
MaskedVolumes(arr, idx) == Masked[Volumes(arr), idx]
MaskedNotional(arr, idx) == Masked[Notional(arr), idx]

\* self.bids["price"][0] raises IndexError on an empty side
best_bid_raises(ob) == Len(ob.bids) = 0
best_ask_raises(ob) == Len(ob.asks) = 0

\* OrderBook.best_bid, as the outcome of the property read
best_bid_result(ob) ==
    IF best_bid_raises(ob) THEN Raised
    ELSE Returned(FloatOfInt[best_bid(ob)])

\* OrderBook.best_ask, as the outcome of the property read
best_ask_result(ob) ==
    IF best_ask_raises(ob) THEN Raised
    ELSE Returned(FloatOfInt[best_ask(ob)])

\* midprice that falls back on the side that has quotes
midprice_result_one_sided(ob) ==
    IF best_bid_raises(ob) /\ best_ask_raises(ob) THEN Raised
    ELSE IF best_bid_raises(ob) THEN Returned(FloatOfInt[best_ask(ob)])
    ELSE IF best_ask_raises(ob) THEN Returned(FloatOfInt[best_bid(ob)])
    ELSE Returned(np_mean[<<FloatOfInt[best_ask(ob)],
                            FloatOfInt[best_bid(ob)]>>])

\* OrderBook.midprice: np.mean([best_ask, best_bid])
midprice_result(ob) ==
    IF best_bid_raises(ob) \/ best_ask_raises(ob) THEN Raised
    ELSE Returned(np_mean[<<FloatOfInt[best_ask(ob)],
                            FloatOfInt[best_bid(ob)]>>])

\* OrderBook.obwa, the input check: not side in ("bid", "ask") or depth < 0
obwa_rejects(side, depth) == side \notin {"bid", "ask"} \/ depth < 0

\* obwa_volume = total_volume * depth / 100 for total_volume =
\* np.sum(arr["volume"]), in float64
obwa_volume[volume \in Seq(Floats), depth \in Nat] ==
    FloatDivInt[FloatMulInt[np_sum[volume], depth], 100]

\* if not idx.any(): idx[k] = True
idx_or[idx \in SUBSET Nat, k \in Nat] == IF idx = {} THEN {k} ELSE idx

\* obwa mask with a strict comparison: cumsum < obwa_volume
obwa_idx_strict(arr, depth) ==
    idx_or[less[np_cumsum[Volumes(arr)], obwa_volume[Volumes(arr), depth]],
           1]

\* OrderBook.obwa, the mask: idx = np.cumsum(arr["volume"]) <= obwa_volume,
\* compared in float64, and idx[0] = True if no entry qualifies
obwa_idx(arr, depth) ==
    idx_or[less_equal[np_cumsum[Volumes(arr)],
                      obwa_volume[Volumes(arr), depth]], 1]

\* np.sum(arr["price"][idx] * arr["volume"][idx]) / np.sum(arr["volume"][idx])
\* in float64: every product, both sums and the quotient are rounded, and
\* a volume sum of zero gives nan
masked_price[arr \in Seq(Levels), idx \in SUBSET Nat] ==
    FloatDiv[np_sum[MaskedNotional(arr, idx)], np_sum[MaskedVolumes(arr, idx)]]

\* OrderBook.obwa; on an empty side idx[0] = True raises IndexError
obwa_result(ob, side, depth) ==
    IF obwa_rejects(side, depth) THEN ReturnedNone
    ELSE LET arr == IF side = "bid" THEN ob.bids ELSE ob.asks
         IN  IF Len(arr) = 0 THEN Raised
             ELSE Returned(masked_price[arr, obwa_idx(arr, depth)])

\* ----------------------------------------------------------- PublicTrades
\* np.argmax: the first index that holds the maximum
ArgMax(s) ==
    CHOOSE i \in 1..Len(s) :
        /\ \A j \in 1..Len(s) : s[j] <= s[i]
        /\ \A j \in 1..(i - 1) : s[j] < s[i]

\* last_price that takes the last bar of the array
last_price_result_last_row(ohlc) ==
    IF Len(ohlc) = 0 THEN Raised
    ELSE Returned(FloatOfInt[ohlc[Len(ohlc)].close])

\* PublicTrades.last_price; np.argmax raises ValueError on an empty array
last_price_result(ohlc) ==
    IF Len(ohlc) = 0 THEN Raised
    ELSE LET idx == ArgMax([k \in 1..Len(ohlc) |-> ohlc[k].timestamp])
         IN  Returned(FloatOfInt[ohlc[idx].close])

\* ------------------------------------------------------------ DataCenter
\* OrderBook(bids=None, asks=None), what update_market_data stores after an
\* error answer to Depth: every read subscripts None and raises
\* (TypeError), as the reads of an empty array raise (IndexError).
OrderBookOfNone == [bids |-> <<>>, asks |-> <<>>, arrays |-> "None"]

\* PublicTrades(ohlc=...) and, after an error answer to OHLC,
\* PublicTrades(ohlc=None), whose last_price raises (TypeError).
PublicTrades(ohlc) == [ohlc |-> ohlc]
PublicTradesOfNone == [ohlc |-> <<>>, arrays |-> "None"]

\* server_time_rfc = None: no server time was stored yet.
NoTime == 0

\* What the exchange answers to one request (kraken_client.send_public_request
\* and the get_* function around it): "ok" with a result, "error" for an
\* error answer (a status other than 200, or an error list in the body),
\* "fail" for a call that raises (the request after its last retry, or
\* the parser on a result without the pair).
Answer(kind, payload) == [kind |-> kind, payload |-> payload]

ServerTimes == {1, 2}
TimeAnswers ==
    {Answer("ok", t) : t \in ServerTimes}
    \cup {Answer("error", NoTime), Answer("fail", NoTime)}
DepthAnswers ==
    {Answer("ok", raw) : raw \in RawDepths}
    \cup {Answer("error", RawNoBids), Answer("fail", RawNoBids)}
OhlcAnswers ==
    {Answer("ok", ohlc) : ohlc \in OhlcFeeds}
    \cup {Answer("error", <<>>), Answer("fail", <<>>)}

VARIABLES
    load_trades,     \* DataCenter.load_trades
    load_orderbook,  \* DataCenter.load_orderbook
    server_time_rfc, \* DataCenter.server_time_rfc
    order_book,      \* DataCenter.order_book
    public_trades,   \* DataCenter.public_trades
    data_call        \* the latest call on the DataCenter or a view

data_vars == <<load_trades, load_orderbook, server_time_rfc, order_book,
               public_trades, data_call>>

\* Sides and depths a caller passes to obwa.
Sides == {"bid", "ask", "mid"}
Depths == {0 - 1, 0, 1, 30, 50, 100, 150}

DataCall(op, side, depth, result) ==
    [op |-> op, side |-> side, depth |-> depth, result |-> result]

\* DataCenter.__init__: the flags, then init_empty_market_vars
data_init(trades, orderbook) ==
    /\ load_trades = trades
    /\ load_orderbook = orderbook
    /\ server_time_rfc = NoTime
    /\ order_book = EmptyState
    /\ public_trades = EmptyState
    /\ data_call = DataCall("init", "-", 0, ReturnedNone)

\* The DataCenter as main.py constructs it: DataCenter(pair=pair)
DataInit == data_init(TRUE, TRUE)

\* DataCenter.init_empty_market_vars
init_empty_market_vars ==
    /\ server_time_rfc' = NoTime
    /\ order_book' = EmptyState
    /\ public_trades' = EmptyState
    /\ data_call' = DataCall("init_empty_market_vars", "-", 0, ReturnedNone)
    /\ UNCHANGED <<load_trades, load_orderbook>>

\* The views exist once update_market_data has stored them.
HasViews == "bids" \in DOMAIN order_book
HasTrades == "ohlc" \in DOMAIN public_trades

\* kraken_client.get_server_time: on an error answer it reads
\* response.status_code of a dict and raises AttributeError
get_server_time_raises(answer) == answer.kind # "ok"

\* parse_orderbook_into_arr, tabulated over the Depth results.
ParsedDepths == [raw \in RawDepths |-> parse_orderbook_into_arr(raw)]

\* kraken_client.get_orderbook and OrderBook(bids=bids, asks=asks): the
\* parsed sides, or (None, None, None) on an error answer
get_orderbook_view(answer) ==
    IF answer.kind = "error" THEN OrderBookOfNone
    ELSE ParsedDepths[answer.payload]

\* kraken_client.get_ohlc and PublicTrades(ohlc=ohlc): the bars, or None
\* on an error answer
get_ohlc_view(answer) ==
    IF answer.kind = "error" THEN PublicTradesOfNone
    ELSE PublicTrades(answer.payload)

\* DataCenter.update_market_data: the three requests in their order, each
\* behind its flag (load_server_time is always True); an attribute is
\* assigned as soon as its request has answered, so a request that raises
\* leaves the earlier attributes replaced and the later ones as they were.
update_market_data_outcome(time_answer, depth_answer, ohlc_answer) ==
    LET time_raises == get_server_time_raises(time_answer)
        depth_raises == load_orderbook /\ depth_answer.kind = "fail"
        ohlc_raises == load_trades /\ ohlc_answer.kind = "fail"
    IN  [raised |-> time_raises \/ depth_raises \/ ohlc_raises,
         time |-> IF time_raises THEN server_time_rfc
                  ELSE time_answer.payload,
         order_book |->
             IF time_raises \/ depth_raises \/ ~load_orderbook
             THEN order_book
             ELSE get_orderbook_view(depth_answer),
         public_trades |->
             IF time_raises \/ depth_raises \/ ohlc_raises \/ ~load_trades
             THEN public_trades
             ELSE get_ohlc_view(ohlc_answer)]

update_market_data(time_answer, depth_answer, ohlc_answer) ==
    LET outcome == update_market_data_outcome(time_answer, depth_answer,
                                              ohlc_answer)
    IN  /\ server_time_rfc' = outcome.time
        /\ order_book' = outcome.order_book
        /\ public_trades' = outcome.public_trades
        /\ data_call' = DataCall("update_market_data", "-", 0,
                                 IF outcome.raised THEN Raised
                                 ELSE ReturnedNone)
        /\ UNCHANGED <<load_trades, load_orderbook>>

\* The dict get_market_data returns.
market_data(time, book, trades) ==
    [time |-> time, order_book |-> book, public_trades |-> trades]

\* DataCenter.get_market_data: update_market_data, then the dict of the
\* three attributes
get_market_data(time_answer, depth_answer, ohlc_answer) ==
    LET outcome == update_market_data_outcome(time_answer, depth_answer,
                                              ohlc_answer)
    IN  /\ server_time_rfc' = outcome.time
        /\ order_book' = outcome.order_book
        /\ public_trades' = outcome.public_trades
        /\ data_call' = DataCall("get_market_data", "-", 0,
                            IF outcome.raised THEN Raised
                            ELSE [kind |-> "dict",
                                  value |-> market_data(outcome.time,
                                                outcome.order_book,
                                                outcome.public_trades)])
        /\ UNCHANGED <<load_trades, load_orderbook>>

read_best_bid ==
    /\ HasViews
    /\ data_call' = DataCall("best_bid", "-", 0, best_bid_result(order_book))
    /\ UNCHANGED <<load_trades, load_orderbook, server_time_rfc, order_book,
                   public_trades>>

read_best_ask ==
    /\ HasViews
    /\ data_call' = DataCall("best_ask", "-", 0, best_ask_result(order_book))
    /\ UNCHANGED <<load_trades, load_orderbook, server_time_rfc, order_book,
                   public_trades>>

read_midprice ==
    /\ HasViews
    /\ data_call' = DataCall("midprice", "-", 0, midprice_result(order_book))
    /\ UNCHANGED <<load_trades, load_orderbook, server_time_rfc, order_book,
                   public_trades>>

\* The views a DataCenter holds, and OrderBook.obwa on them, computed
\* once for every side and depth a caller passes
Views == {ParsedDepths[raw] : raw \in RawDepths} \cup {OrderBookOfNone}
ObwaOfViews ==
    [ob \in Views, side \in Sides, depth \in Depths |->
        obwa_result(ob, side, depth)]

\* self.order_book.obwa(side, depth)
obwa_of_view(ob, side, depth) == ObwaOfViews[ob, side, depth]

call_obwa(side, depth) ==
    /\ HasViews
    /\ data_call' = DataCall("obwa", side, depth,
                             obwa_of_view(order_book, side, depth))
    /\ UNCHANGED <<load_trades, load_orderbook, server_time_rfc, order_book,
                   public_trades>>

read_last_price ==
    /\ HasTrades
    /\ data_call' = DataCall("last_price", "-", 0,
                             last_price_result(public_trades.ohlc))
    /\ UNCHANGED <<load_trades, load_orderbook, server_time_rfc, order_book,
                   public_trades>>

\* ================================================================ strategy
\* src/src/strategies.py: Strategy and SobiStrategy.

\* ---------------------------------------------------------------- bounds
\* Largest window_size a SobiStrategy is constructed with.
MaxWindow == 2
\* Largest number of updates of a run that reach the rolling window.
MaxUpdates == 3

\* ----------------------------------------------------------------- inputs
\* Constructor arguments: window_size, theta, and the depth of main.py.
WindowSizes == 1..MaxWindow
Thetas == {PyFloat(0 - 1, 2), PyFloat(0, 1), PyFloat(1, 2), PyFloat(2, 1)}
MainDepth == 30
\* depth: that of main.py, and a negative one, for which obwa returns None
StrategyDepths == {MainDepth, 0 - 1}
\* position_size, in the units positions are counted in (main.py: one
\* unit of 0.1)
MainPositionSize == 1
PositionSizes == {MainPositionSize, 2}
\* The constructions of a SobiStrategy: every window size and threshold at
\* the depth and position size of main.py, the negative depth, and the
\* other position size.
SobiConfigs ==
    {<<w, th, MainDepth, MainPositionSize>> :
        w \in WindowSizes, th \in Thetas}
    \cup {<<1, PyFloat(0, 1), d, MainPositionSize>> : d \in StrategyDepths}
    \cup {<<w, PyFloat(0, 1), MainDepth, ps>> :
             w \in WindowSizes, ps \in PositionSizes}

\* Market states handed to Strategy.update_market_state: the dict
\* DataCenter.get_market_data returns for the answers of one tick. Books
\* with quotes and trades, a book without bids, a state without trade
\* bars, a book with decimal volumes, and the views stored after an error
\* answer to Depth or to OHLC.
MarketState(t, raw, ohlc) ==
    market_data(t, parse_orderbook_into_arr(raw), PublicTrades(ohlc))

FeedState(feed) ==
    market_data(feed[1].payload, get_orderbook_view(feed[2]),
                get_ohlc_view(feed[3]))

Feed(t, raw, ohlc) ==
    <<Answer("ok", t), Answer("ok", raw), Answer("ok", ohlc)>>

Feeds ==
    { Feed(1, RawA, <<Bar(1, 20)>>),
      Feed(2, RawA, <<Bar(1, 18), Bar(2, 20), Bar(3, 22)>>),
      Feed(3, RawB, <<Bar(1, 20)>>),
      Feed(4, RawB, <<Bar(1, 18), Bar(2, 20), Bar(3, 22)>>),
      Feed(5, RawNoBids, <<Bar(1, 20)>>),
      Feed(6, RawA, <<>>),
      Feed(10, RawDecimal, <<Bar(1, 20)>>),
      <<Answer("ok", 7), Answer("error", RawNoBids),
        Answer("ok", <<Bar(1, 20)>>)>>,
      <<Answer("ok", 8), Answer("ok", RawA), Answer("error", <<>>)>> }

\* Ticks whose get_market_data raises when every request is sent: an
\* error answer to Time, and a call that raises at each of the three
\* requests.
FailedFeeds ==
    { <<Answer("error", NoTime), Answer("ok", RawA),
        Answer("ok", <<Bar(1, 20)>>)>>,
      <<Answer("fail", NoTime), Answer("ok", RawA),
        Answer("ok", <<Bar(1, 20)>>)>>,
      <<Answer("ok", 9), Answer("fail", RawNoBids),
        Answer("ok", <<Bar(1, 20)>>)>>,
      <<Answer("ok", 9), Answer("ok", RawB), Answer("fail", <<>>)>> }

\* The states a strategy is updated with on its own: those of the feeds
\* with parsed views, the state after an error answer to Depth, and the
\* state of a DataCenter constructed with load_trades=False, which holds
\* None for the view.
StrategyStates ==
    {FeedState(feed) : feed \in {f \in Feeds : f[3].kind = "ok"}}
    \cup {market_data(1, parse_orderbook_into_arr(RawA), EmptyState)}

\* Every dict get_market_data can return for the answers of a tick: a
\* view is the one of the answer, or None when its flag is off.
DriverStates ==
    UNION { { market_data(feed[1].payload, book, trades) :
                book \in {get_orderbook_view(feed[2]), EmptyState},
                trades \in {get_ohlc_view(feed[3]), EmptyState} } :
            feed \in {f \in Feeds \cup FailedFeeds : f[1].kind = "ok"} }

\* Imbalances handed to a direct call of _calc_signal.
ImbValues == {PyFloat(0 - 1, 1), PyFloat(0, 1), PyFloat(1, 2), PyFloat(1, 1),
              PyFloat(3, 2), PyFloat(2, 1), PyFloat(3, 1)}

\* ------------------------------------------------------------------ state
VARIABLES
    strategy_market_state,  \* Strategy.market_state
    position_size,          \* Strategy.position_size
    window_size,            \* SobiStrategy._window_size
    theta,                  \* SobiStrategy._theta
    strategy_depth,         \* SobiStrategy._depth
    last_imbalances,        \* SobiStrategy.last_imbalances, newest first
    indicators,             \* SobiStrategy._indicators
    signals,                \* SobiStrategy._signals
    trade_signal,           \* Strategy.trade_signal
    imbalance_log,          \* every pair update_indicators inserted, oldest first
    strategy_call           \* the latest call on the strategy and its outcome

sobi_vars == <<strategy_market_state, position_size,
               window_size, theta, strategy_depth,
               last_imbalances, indicators, signals, trade_signal,
               imbalance_log, strategy_call>>

StrategyCall(op, imb_bid, imb_ask, raised, result) ==
    [op |-> op, imb_bid |-> imb_bid, imb_ask |-> imb_ask,
     raised |-> raised, result |-> result]

\* Strategy.__init__ and SobiStrategy.__init__
sobi_init(w, th, d, ps) ==
    /\ strategy_market_state = EmptyState
    /\ position_size = ps
    /\ window_size = w
    /\ theta = th
    /\ strategy_depth = d
    /\ last_imbalances = <<>>
    /\ indicators = [vw_bid |-> ReturnedNone, vw_ask |-> ReturnedNone,
                     imb_bid |-> ReturnedNone, imb_ask |-> ReturnedNone,
                     rolling_imb_bid |-> ReturnedNone,
                     rolling_imb_ask |-> ReturnedNone]
    /\ signals = [current |-> 0, rolling |-> 0]
    /\ trade_signal = 0
    /\ imbalance_log = <<>>
    /\ strategy_call = StrategyCall("init", FloatZero, FloatZero, FALSE, 0)

\* The strategy as main.py constructs it: window_size=10, theta=0.1, depth=30
SobiInitMain == sobi_init(10, PyFloat(1, 10), MainDepth, MainPositionSize)

\* ------------------------------------------------------- SobiStrategy
\* SobiStrategy._calc_imbalances
calc_imbalances(vw_bid, vw_ask, lastprice) ==
    <<FloatSub[lastprice, vw_bid], FloatSub[vw_ask, lastprice]>>

\* _calc_signal with >= in place of >
calc_signal_inclusive(imb_bid, imb_ask) ==
    IF FloatLeq[theta, FloatSub[imb_ask, imb_bid]] THEN 1
    ELSE IF FloatLeq[theta, FloatSub[imb_bid, imb_ask]] THEN 0 - 1
    ELSE 0

\* SobiStrategy._calc_signal
calc_signal(imb_bid, imb_ask) ==
    IF FloatLess[theta, FloatSub[imb_ask, imb_bid]] THEN 1
    ELSE IF FloatLess[theta, FloatSub[imb_bid, imb_ask]] THEN 0 - 1
    ELSE 0

\* np.sum(a, axis=0) of a list of pairs: the pairs are added one after the
\* other, column by column, in float64
sum_axis0(window) ==
    <<SumFrom[FloatZero, [k \in 1..Len(window) |-> window[k][1]], 1],
      SumFrom[FloatZero, [k \in 1..Len(window) |-> window[k][2]], 1]>>

\* rolling imbalances divided by the capacity of the window
calc_rolling_imbalances_by_capacity(window) ==
    <<FloatDivInt[sum_axis0(window)[1], window_size],
      FloatDivInt[sum_axis0(window)[2], window_size]>>

\* SobiStrategy._calc_rolling_imbalances: np.mean(last_imbalances, axis=0),
\* the column sums over the number of pairs
calc_rolling_imbalances(window) ==
    <<FloatDivInt[sum_axis0(window)[1], Len(window)],
      FloatDivInt[sum_axis0(window)[2], Len(window)]>>

\* rolling window that evicts two pairs once it is over capacity (the
\* newest pair always stays)
push_imbalance_evicting_two(window, pair) ==
    LET inserted == <<pair>> \o window
    IN  IF Len(inserted) > window_size
        THEN SubSeq(inserted, 1,
                    IF Len(inserted) > 2 THEN Len(inserted) - 2 ELSE 1)
        ELSE inserted

\* rolling window that evicts one update too late
push_imbalance_late(window, pair) ==
    LET inserted == <<pair>> \o window
    IN  IF Len(inserted) > window_size + 1
        THEN SubSeq(inserted, 1, Len(inserted) - 1)
        ELSE inserted

\* update_indicators, the rolling window: insert(0, pair), and pop() once
\* the list is longer than window_size
push_imbalance(window, pair) ==
    LET inserted == <<pair>> \o window
    IN  IF Len(inserted) > window_size
        THEN SubSeq(inserted, 1, Len(inserted) - 1)
        ELSE inserted

\* update_signals that smooths as soon as there is any history
rolling_ready_early(window) == Len(window) >= 1

\* update_signals, its test: len(self.last_imbalances) == self._window_size
rolling_ready(window) == Len(window) = window_size

\* self.market_state.get("public_trades") and self.market_state['order_book']:
\* the view of the market state, or none (a missing key of the empty dict,
\* or a view the DataCenter did not load)
state_trades(state) ==
    IF "public_trades" \in DOMAIN state THEN state.public_trades
    ELSE EmptyState
state_book(state) ==
    IF "order_book" \in DOMAIN state THEN state.order_book ELSE EmptyState

\* update_indicators, its three reads of the market state: last_price and
\* obwa of either side; a read of a view that is not there raises
\* (AttributeError on None, KeyError on the empty dict)
indicator_reads(state, d) ==
    LET trades == state_trades(state)
        book == state_book(state)
    IN  [last_price |-> IF "ohlc" \in DOMAIN trades
                        THEN last_price_result(trades.ohlc) ELSE Raised,
         vw_bid |-> IF "bids" \in DOMAIN book
                    THEN obwa_of_view(book, "bid", d) ELSE Raised,
         vw_ask |-> IF "asks" \in DOMAIN book
                    THEN obwa_of_view(book, "ask", d) ELSE Raised]

\* The reads, tabulated over the market states and depths.
IndicatorInputs ==
    [st \in StrategyStates \cup DriverStates \cup {EmptyState},
     d \in StrategyDepths |->
        indicator_reads(st, d)]

\* update_indicators raises when last_price or obwa raises, and in
\* _calc_imbalances when obwa returned None
reads_raise(reads) ==
    \/ reads.last_price.kind # "value"
    \/ reads.vw_bid.kind # "value"
    \/ reads.vw_ask.kind # "value"

\* update_indicators raises on the market state, at the strategy's depth
update_indicators_raises(state) ==
    reads_raise(IndicatorInputs[state, strategy_depth])

\* SobiStrategy.update_indicators on a market state whose reads return
\* numbers: the pair, the rolling window and the indicator dictionary
reads_outcome(reads) ==
    LET last_price == ValueOf(reads.last_price)
        vw_bid == ValueOf(reads.vw_bid)
        vw_ask == ValueOf(reads.vw_ask)
        imb == calc_imbalances(vw_bid, vw_ask, last_price)
        window == push_imbalance(last_imbalances, imb)
        rolling == calc_rolling_imbalances(window)
    IN  [imb |-> imb,
         window |-> window,
         indicators |-> [vw_bid |-> Returned(vw_bid),
                         vw_ask |-> Returned(vw_ask),
                         imb_bid |-> Returned(imb[1]),
                         imb_ask |-> Returned(imb[2]),
                         rolling_imb_bid |-> Returned(rolling[1]),
                         rolling_imb_ask |-> Returned(rolling[2])]]

\* SobiStrategy.update_indicators on the market state, at the strategy's depth
update_indicators_outcome(state) ==
    reads_outcome(IndicatorInputs[state, strategy_depth])

\* update_signals raises in _calc_signal (None - None) while the indicators
\* are those of the constructor
update_signals_raises(ind) == ind.imb_bid.kind # "value"

\* SobiStrategy.update_signals on indicators that hold numbers: the current
\* signal is computed, and both signals and the trade signal are stored
\* when the window is full
update_signals_outcome(ind, window) ==
    LET current_signal ==
            calc_signal(ValueOf(ind.imb_bid), ValueOf(ind.imb_ask))
        rolling_signal ==
            calc_signal(ValueOf(ind.rolling_imb_bid),
                        ValueOf(ind.rolling_imb_ask))
    IN  IF rolling_ready(window)
        THEN [signals |-> [current |-> current_signal,
                           rolling |-> rolling_signal],
              trade_signal |-> rolling_signal]
        ELSE [signals |-> signals, trade_signal |-> trade_signal]

\* Strategy.update_market_state for a SobiStrategy: market_state,
\* update_indicators, update_signals
sobi_update_market_state(current_state) ==
    /\ strategy_market_state' = current_state
    /\ IF update_indicators_raises(current_state)
       THEN /\ strategy_call' = StrategyCall("update_market_state",
                                    FloatZero, FloatZero, TRUE, 0)
            /\ UNCHANGED <<last_imbalances, indicators, signals,
                           trade_signal, imbalance_log>>
       ELSE LET updated == update_indicators_outcome(current_state)
                signalled == update_signals_outcome(updated.indicators,
                                                    updated.window)
            IN  /\ Len(imbalance_log) < MaxUpdates
                /\ last_imbalances' = updated.window
                /\ imbalance_log' = Append(imbalance_log, updated.imb)
                /\ indicators' = updated.indicators
                /\ signals' = signalled.signals
                /\ trade_signal' = signalled.trade_signal
                /\ strategy_call' = StrategyCall("update_market_state",
                                        updated.imb[1], updated.imb[2],
                                        FALSE, 0)
    /\ UNCHANGED <<position_size, window_size, theta, strategy_depth>>

\* A call of SobiStrategy.update_indicators on its own, on the market
\* state the strategy holds
sobi_update_indicators ==
    /\ IF update_indicators_raises(strategy_market_state)
       THEN /\ strategy_call' = StrategyCall("update_indicators",
                                    FloatZero, FloatZero, TRUE, 0)
            /\ UNCHANGED <<last_imbalances, indicators, imbalance_log>>
       ELSE LET updated == update_indicators_outcome(strategy_market_state)
            IN  /\ Len(imbalance_log) < MaxUpdates
                /\ last_imbalances' = updated.window
                /\ imbalance_log' = Append(imbalance_log, updated.imb)
                /\ indicators' = updated.indicators
                /\ strategy_call' = StrategyCall("update_indicators",
                                        updated.imb[1], updated.imb[2],
                                        FALSE, 0)
    /\ UNCHANGED <<strategy_market_state, signals, trade_signal,
                   position_size, window_size, theta, strategy_depth>>

\* A call of SobiStrategy.update_signals on its own
sobi_update_signals ==
    /\ IF update_signals_raises(indicators)
       THEN /\ strategy_call' = StrategyCall("update_signals",
                                    FloatZero, FloatZero, TRUE, 0)
            /\ UNCHANGED <<signals, trade_signal>>
       ELSE LET signalled == update_signals_outcome(indicators,
                                                    last_imbalances)
            IN  /\ signals' = signalled.signals
                /\ trade_signal' = signalled.trade_signal
                /\ strategy_call' = StrategyCall("update_signals",
                                        ValueOf(indicators.imb_bid),
                                        ValueOf(indicators.imb_ask),
                                        FALSE, 0)
    /\ UNCHANGED <<strategy_market_state, last_imbalances, indicators,
                   imbalance_log, position_size, window_size, theta,
                   strategy_depth>>

\* A direct call of SobiStrategy._calc_signal
call_calc_signal(imb_bid, imb_ask) ==
    /\ strategy_call' = StrategyCall("_calc_signal", imb_bid, imb_ask,
                                     FALSE, calc_signal(imb_bid, imb_ask))
    /\ UNCHANGED <<strategy_market_state, position_size, window_size, theta,
                   strategy_depth, last_imbalances, indicators, signals,
                   trade_signal, imbalance_log>>

\* desired_position that forgets the position size
desired_position_unit == trade_signal

\* Strategy.desired_position: self.trade_signal * self.position_size
desired_position == trade_signal * position_size

\* A read of the property Strategy.desired_position
read_desired_position ==
    /\ strategy_call' = StrategyCall("desired_position", FloatZero,
                                     FloatZero, FALSE, desired_position)
    /\ UNCHANGED <<strategy_market_state, position_size, window_size, theta,
                   strategy_depth, last_imbalances, indicators, signals,
                   trade_signal, imbalance_log>>

\* ---------------------------------------------------------- TrendStrategy
\* The ADX triple comes from the ta library (ta.trend.ADXIndicator), which
\* is no part of the repository: update_indicators is given its three
\* outputs as inputs.
MainAdxThreshold == 20
AdxThresholds == {MainAdxThreshold, 25}
AdxIdxValues == {10, 20, 30}
AdxDirValues == {15, 25}

\* Market states a TrendStrategy is updated with.
TrendStates ==
    { MarketState(1, RawA, <<Bar(1, 20)>>),
      MarketState(2, RawA, <<Bar(1, 18), Bar(2, 20), Bar(3, 22)>>),
      market_data(3, parse_orderbook_into_arr(RawA), PublicTradesOfNone),
      market_data(4, parse_orderbook_into_arr(RawA), EmptyState) }

\* A Python value that is a number or None.
PyInt(n) == Returned(n)

VARIABLES
    trend_market_state,     \* Strategy.market_state of the TrendStrategy
    adx_threshold,          \* TrendStrategy._adx_threshold
    trend_indicators,       \* TrendStrategy._indicators
    trend_signals,          \* TrendStrategy._signals
    trend_trade_signal,     \* Strategy.trade_signal of the TrendStrategy
    trend_call              \* the latest _calc_signal call and its outcome

trend_vars == <<trend_market_state, adx_threshold, trend_indicators,
                trend_signals, trend_trade_signal, trend_call>>

TrendCall(op, adx_idx, adx_neg, adx_pos, result) ==
    [op |-> op, adx_idx |-> adx_idx, adx_neg |-> adx_neg,
     adx_pos |-> adx_pos, result |-> result]

\* Strategy.__init__ and TrendStrategy.__init__
trend_init(threshold) ==
    /\ trend_market_state = EmptyState
    /\ adx_threshold = threshold
    /\ trend_indicators = [adx_idx |-> ReturnedNone, adx_neg |-> ReturnedNone,
                           adx_pos |-> ReturnedNone]
    /\ trend_signals = [current |-> ReturnedNone]
    /\ trend_trade_signal = PyInt(0)
    /\ trend_call = TrendCall("init", 0, 0, 0, ReturnedNone)

\* The strategy as main.py constructs it: adx_threshold=20
TrendInitMain == trend_init(MainAdxThreshold)

\* TrendStrategy._calc_signal: the inner if/elif has no else, so a tie of
\* the two components above the threshold falls off the end (None)
trend_calc_signal(adx_idx, adx_neg, adx_pos) ==
    IF adx_idx > adx_threshold
    THEN IF adx_pos > adx_neg THEN PyInt(1)
         ELSE IF adx_neg > adx_pos THEN PyInt(0 - 1)
         ELSE ReturnedNone
    ELSE PyInt(0)

\* TrendStrategy.update_indicators raises when the market state holds no
\* trade bars to build the DataFrame from: the empty dict and a state
\* without trades (AttributeError on None), PublicTrades(ohlc=None)
\* (KeyError on the empty DataFrame)
trend_update_indicators_raises(state) ==
    LET trades == state_trades(state)
    IN  \/ "ohlc" \notin DOMAIN trades
        \/ "arrays" \in DOMAIN trades

\* TrendStrategy.update_indicators, the dictionary it stores
trend_indicators_outcome(adx_idx, adx_neg, adx_pos) ==
    [adx_idx |-> PyInt(adx_idx), adx_neg |-> PyInt(adx_neg),
     adx_pos |-> PyInt(adx_pos)]

\* TrendStrategy.update_signals raises in _calc_signal (None > threshold)
\* while the indicators are those of the constructor
trend_update_signals_raises(ind) == ind.adx_idx.kind # "value"

\* TrendStrategy.update_signals, the signal it stores
trend_signal_outcome(ind) ==
    trend_calc_signal(ValueOf(ind.adx_idx), ValueOf(ind.adx_neg),
                      ValueOf(ind.adx_pos))

\* Strategy.update_market_state for a TrendStrategy: market_state,
\* update_indicators (the ADX triple), update_signals
trend_update_market_state(current_state, adx_idx, adx_neg, adx_pos) ==
    /\ trend_market_state' = current_state
    /\ IF trend_update_indicators_raises(current_state)
       THEN /\ trend_call' = TrendCall("update_market_state", 0, 0, 0, Raised)
            /\ UNCHANGED <<trend_indicators, trend_signals,
                           trend_trade_signal>>
       ELSE LET updated == trend_indicators_outcome(adx_idx, adx_neg,
                                                    adx_pos)
                signal == trend_signal_outcome(updated)
            IN  /\ trend_indicators' = updated
                /\ trend_signals' = [current |-> signal]
                /\ trend_trade_signal' = signal
                /\ trend_call' = TrendCall("update_market_state", adx_idx,
                                           adx_neg, adx_pos, ReturnedNone)
    /\ UNCHANGED adx_threshold

\* A call of TrendStrategy.update_indicators on its own (start_trend.py),
\* on the market state the strategy holds
trend_update_indicators(adx_idx, adx_neg, adx_pos) ==
    /\ IF trend_update_indicators_raises(trend_market_state)
       THEN /\ trend_call' = TrendCall("update_indicators", 0, 0, 0, Raised)
            /\ UNCHANGED trend_indicators
       ELSE /\ trend_indicators' = trend_indicators_outcome(adx_idx, adx_neg,
                                                            adx_pos)
            /\ trend_call' = TrendCall("update_indicators", adx_idx,
                                       adx_neg, adx_pos, ReturnedNone)
    /\ UNCHANGED <<trend_market_state, adx_threshold, trend_signals,
                   trend_trade_signal>>

\* A call of TrendStrategy.update_signals on its own (start_trend.py)
trend_update_signals ==
    /\ IF trend_update_signals_raises(trend_indicators)
       THEN /\ trend_call' = TrendCall("update_signals", 0, 0, 0, Raised)
            /\ UNCHANGED <<trend_signals, trend_trade_signal>>
       ELSE LET signal == trend_signal_outcome(trend_indicators)
            IN  /\ trend_signals' = [current |-> signal]
                /\ trend_trade_signal' = signal
                /\ trend_call' = TrendCall("update_signals",
                                     ValueOf(trend_indicators.adx_idx),
                                     ValueOf(trend_indicators.adx_neg),
                                     ValueOf(trend_indicators.adx_pos),
                                     ReturnedNone)
    /\ UNCHANGED <<trend_market_state, adx_threshold, trend_indicators>>

\* A direct call of TrendStrategy._calc_signal
call_trend_calc_signal(adx_idx, adx_neg, adx_pos) ==
    /\ trend_call' = TrendCall("_calc_signal", adx_idx, adx_neg, adx_pos,
                               trend_calc_signal(adx_idx, adx_neg, adx_pos))
    /\ UNCHANGED <<trend_market_state, adx_threshold, trend_indicators,
                   trend_signals, trend_trade_signal>>

\* ================================================================= driver
\* src/src/main.py: run_iteration, one round trip per tick, and main, the
\* loop around it.

\* The statements of run_iteration that act on the objects, in the order
\* of the code; the log message and the sleep after them change nothing.
next_step_trading_first(step) ==
    CASE step = "get_market_data" -> "strategy_update"
      [] step = "strategy_update" -> "desired_position"
      [] step = "desired_position" -> "rebalance_position"
      [] step = "rebalance_position" -> "engine_update"
      [] step = "engine_update" -> "get_current_profit"
      [] step = "get_current_profit" -> "get_last_order"
      [] step = "get_last_order" -> "get_market_data"

next_step(step) ==
    CASE step = "get_market_data" -> "strategy_update"
      [] step = "strategy_update" -> "desired_position"
      [] step = "desired_position" -> "engine_update"
      [] step = "engine_update" -> "rebalance_position"
      [] step = "rebalance_position" -> "get_current_profit"
      [] step = "get_current_profit" -> "get_last_order"
      [] step = "get_last_order" -> "get_market_data"

VARIABLES
    pc,                     \* the statement of run_iteration to execute next
    tick_market_state,      \* run_iteration, its local market_state
    tick_desired_position   \* run_iteration, its local desired_position

driver_vars == <<pc, tick_market_state, tick_desired_position>>

\* main, before the first run_iteration
DriverInit ==
    /\ pc = "get_market_data"
    /\ tick_market_state = EmptyState
    /\ tick_desired_position = 0

\* An exception leaves run_iteration and main: the loop has no handler.
after(step, raised) == IF raised THEN "crashed" ELSE next_step(step)

\* market_state = data_center.get_market_data(): the local is assigned
\* when the call returns, and an exception of the call ends the run
step_get_market_data(feed) ==
    /\ pc = "get_market_data"
    /\ get_market_data(feed[1], feed[2], feed[3])
    /\ tick_market_state' = IF data_call'.result = Raised
                            THEN tick_market_state
                            ELSE data_call'.result.value
    /\ pc' = after(pc, data_call'.result = Raised)
    /\ UNCHANGED <<tick_desired_position, vars, sobi_vars>>

\* strategy.update_market_state(current_state=market_state)
step_strategy_update ==
    /\ pc = "strategy_update"
    /\ sobi_update_market_state(tick_market_state)
    /\ pc' = after(pc, strategy_call'.raised)
    /\ UNCHANGED <<tick_market_state, tick_desired_position, vars, data_vars>>

\* desired_position = strategy.desired_position
step_desired_position ==
    /\ pc = "desired_position"
    /\ read_desired_position
    /\ tick_desired_position' = desired_position
    /\ pc' = after(pc, FALSE)
    /\ UNCHANGED <<tick_market_state, vars, data_vars>>

\* engine.update_market_state(market_state)
step_engine_update ==
    /\ pc = "engine_update"
    /\ update_market_state(tick_market_state)
    /\ pc' = after(pc, FALSE)
    /\ UNCHANGED <<tick_market_state, tick_desired_position, sobi_vars,
                   data_vars>>

\* engine.rebalance_position(desired_position)
step_rebalance_position ==
    /\ pc = "rebalance_position"
    /\ rebalance_position(tick_desired_position)
    /\ pc' = after(pc, last_call'.raised)
    /\ UNCHANGED <<tick_market_state, tick_desired_position, sobi_vars,
                   data_vars>>

\* pnl = engine.get_current_profit()
step_get_current_profit ==
    /\ pc = "get_current_profit"
    /\ get_current_profit
    /\ pc' = after(pc, last_call'.raised)
    /\ UNCHANGED <<tick_market_state, tick_desired_position, sobi_vars,
                   data_vars>>

\* last_order = engine.get_last_order()
step_get_last_order ==
    /\ pc = "get_last_order"
    /\ get_last_order
    /\ pc' = after(pc, FALSE)
    /\ UNCHANGED <<tick_market_state, tick_desired_position, sobi_vars,
                   data_vars>>

\* ========================================================= specifications
all_vars == <<vars, data_vars, sobi_vars, trend_vars, driver_vars>>

\* Construction of every object of the program, as main.py does it.
InitAll ==
    /\ Init
    /\ DataInit
    /\ SobiInitMain
    /\ TrendInitMain
    /\ DriverInit

\* ------------------------------------------- the execution simulator alone
UpdateMarketState ==
    /\ \E snapshot \in Snapshots : update_market_state(snapshot)
    /\ UNCHANGED <<data_vars, sobi_vars, trend_vars, driver_vars>>

RebalancePosition ==
    /\ \E d \in DesiredPositions : rebalance_position(d)
    /\ UNCHANGED <<data_vars, sobi_vars, trend_vars, driver_vars>>

GetCurrentProfit ==
    /\ get_current_profit
    /\ UNCHANGED <<data_vars, sobi_vars, trend_vars, driver_vars>>

CurrentPositionValue ==
    /\ call_current_position_value
    /\ UNCHANGED <<data_vars, sobi_vars, trend_vars, driver_vars>>

GetLastOrder ==
    /\ get_last_order
    /\ UNCHANGED <<data_vars, sobi_vars, trend_vars, driver_vars>>

Next ==
    \/ UpdateMarketState
    \/ RebalancePosition
    \/ GetCurrentProfit
    \/ CurrentPositionValue
    \/ GetLastOrder

Spec == InitAll /\ [][Next]_all_vars

\* ------------------------------------------------- the market views alone
\* A DataCenter constructed with any choice of load_trades and
\* load_orderbook.
InitData ==
    /\ Init
    /\ \E trades \in BOOLEAN, orderbook \in BOOLEAN :
          data_init(trades, orderbook)
    /\ SobiInitMain
    /\ TrendInitMain
    /\ DriverInit

UpdateMarketData ==
    /\ \E time_answer \in TimeAnswers, depth_answer \in DepthAnswers,
          ohlc_answer \in OhlcAnswers :
          update_market_data(time_answer, depth_answer, ohlc_answer)
    /\ UNCHANGED <<vars, sobi_vars, trend_vars, driver_vars>>

GetMarketData ==
    /\ \E time_answer \in TimeAnswers, depth_answer \in DepthAnswers,
          ohlc_answer \in OhlcAnswers :
          get_market_data(time_answer, depth_answer, ohlc_answer)
    /\ UNCHANGED <<vars, sobi_vars, trend_vars, driver_vars>>

InitEmptyMarketVars ==
    /\ init_empty_market_vars
    /\ UNCHANGED <<vars, sobi_vars, trend_vars, driver_vars>>

ReadBestBid ==
    /\ read_best_bid
    /\ UNCHANGED <<vars, sobi_vars, trend_vars, driver_vars>>

ReadBestAsk ==
    /\ read_best_ask
    /\ UNCHANGED <<vars, sobi_vars, trend_vars, driver_vars>>

ReadMidprice ==
    /\ read_midprice
    /\ UNCHANGED <<vars, sobi_vars, trend_vars, driver_vars>>

CallObwa ==
    /\ \E side \in Sides, d \in Depths : call_obwa(side, d)
    /\ UNCHANGED <<vars, sobi_vars, trend_vars, driver_vars>>

ReadLastPrice ==
    /\ read_last_price
    /\ UNCHANGED <<vars, sobi_vars, trend_vars, driver_vars>>

NextData ==
    \/ UpdateMarketData
    \/ GetMarketData
    \/ InitEmptyMarketVars
    \/ ReadBestBid
    \/ ReadBestAsk
    \/ ReadMidprice
    \/ CallObwa
    \/ ReadLastPrice

SpecData == InitData /\ [][NextData]_all_vars

\* --------------------------------------------------- the SOBI strategy alone
\* A SobiStrategy constructed with any window size and threshold.
InitSobi ==
    /\ Init
    /\ DataInit
    /\ \E c \in SobiConfigs : sobi_init(c[1], c[2], c[3], c[4])
    /\ TrendInitMain
    /\ DriverInit

SobiUpdate ==
    /\ \E state \in StrategyStates : sobi_update_market_state(state)
    /\ UNCHANGED <<vars, data_vars, trend_vars, driver_vars>>

SobiUpdateIndicators ==
    /\ sobi_update_indicators
    /\ UNCHANGED <<vars, data_vars, trend_vars, driver_vars>>

SobiUpdateSignals ==
    /\ sobi_update_signals
    /\ UNCHANGED <<vars, data_vars, trend_vars, driver_vars>>

ReadDesiredPosition ==
    /\ read_desired_position
    /\ UNCHANGED <<vars, data_vars, trend_vars, driver_vars>>

NextSobi ==
    \/ SobiUpdate
    \/ SobiUpdateIndicators
    \/ SobiUpdateSignals
    \/ ReadDesiredPosition

SpecSobi == InitSobi /\ [][NextSobi]_all_vars

\* ------------------------------------------------- the signal rule alone
CallCalcSignal ==
    /\ \E imb_bid \in ImbValues, imb_ask \in ImbValues :
          call_calc_signal(imb_bid, imb_ask)
    /\ UNCHANGED <<vars, data_vars, trend_vars, driver_vars>>

NextSignal == CallCalcSignal

SpecSignal == InitSobi /\ [][NextSignal]_all_vars

\* ------------------------------------------------ the TrendStrategy alone
\* A TrendStrategy constructed with any threshold.
InitTrend ==
    /\ Init
    /\ DataInit
    /\ SobiInitMain
    /\ DriverInit
    /\ \E threshold \in AdxThresholds : trend_init(threshold)

TrendUpdate ==
    /\ \E state \in TrendStates, adx_idx \in AdxIdxValues,
          adx_neg \in AdxDirValues, adx_pos \in AdxDirValues :
          trend_update_market_state(state, adx_idx, adx_neg, adx_pos)
    /\ UNCHANGED <<vars, data_vars, sobi_vars, driver_vars>>

TrendUpdateIndicators ==
    /\ \E adx_idx \in AdxIdxValues, adx_neg \in AdxDirValues,
          adx_pos \in AdxDirValues :
          trend_update_indicators(adx_idx, adx_neg, adx_pos)
    /\ UNCHANGED <<vars, data_vars, sobi_vars, driver_vars>>

TrendUpdateSignals ==
    /\ trend_update_signals
    /\ UNCHANGED <<vars, data_vars, sobi_vars, driver_vars>>

CallTrendCalcSignal ==
    /\ \E adx_idx \in AdxIdxValues, adx_neg \in AdxDirValues,
          adx_pos \in AdxDirValues :
          call_trend_calc_signal(adx_idx, adx_neg, adx_pos)
    /\ UNCHANGED <<vars, data_vars, sobi_vars, driver_vars>>

NextTrend ==
    \/ TrendUpdate
    \/ TrendUpdateIndicators
    \/ TrendUpdateSignals
    \/ CallTrendCalcSignal

SpecTrend == InitTrend /\ [][NextTrend]_all_vars

\* ------------------------------------- the driver with a SobiStrategy
\* The strategies the loop is run with: thresholds at which the books of
\* the feed produce signals within a few ticks. run_iteration is handed
\* its DataCenter: the one of main, or one with a view switched off.
DriverConfigs ==
    {<<w, PyFloat(0, 1), MainDepth, ps>> :
        w \in WindowSizes, ps \in PositionSizes}

InitDriver ==
    /\ Init
    /\ \E trades \in BOOLEAN, orderbook \in BOOLEAN :
          data_init(trades, orderbook)
    /\ TrendInitMain
    /\ DriverInit
    /\ \E c \in DriverConfigs : sobi_init(c[1], c[2], c[3], c[4])

StepGetMarketData ==
    /\ \E feed \in Feeds \cup FailedFeeds : step_get_market_data(feed)
    /\ UNCHANGED trend_vars

StepStrategyUpdate == step_strategy_update /\ UNCHANGED trend_vars

StepDesiredPosition == step_desired_position /\ UNCHANGED trend_vars

StepEngineUpdate == step_engine_update /\ UNCHANGED trend_vars

StepRebalancePosition == step_rebalance_position /\ UNCHANGED trend_vars

StepGetCurrentProfit == step_get_current_profit /\ UNCHANGED trend_vars

StepGetLastOrder == step_get_last_order /\ UNCHANGED trend_vars

NextDriver ==
    \/ StepGetMarketData
    \/ StepStrategyUpdate
    \/ StepDesiredPosition
    \/ StepEngineUpdate
    \/ StepRebalancePosition
    \/ StepGetCurrentProfit
    \/ StepGetLastOrder

SpecDriver == InitDriver /\ [][NextDriver]_all_vars

\* ================================================================== claims
\* The quotes of the stored snapshot.
Bid == best_bid(market_state.order_book)
Ask == best_ask(market_state.order_book)

\* The step just taken was a call of rebalance_position.
RebalanceStep == last_call'.op = "rebalance_position"

\* The order a rebalance from position `from` to position `to` has to
\* execute at the stored snapshot.
ExpectedOrder(from, to) ==
    [order_id |-> market_state.time,
     side |-> IF to > from THEN "buy" ELSE "sell",
     trade_price |-> IF to > from THEN Ask ELSE Bid,
     volume |-> IF to > from THEN to - from ELSE from - to]

\* C1: a rebalance_position(desired) with desired # current_position and a
\* snapshot present executes exactly one order, a buy at best_ask for a
\* positive delta and a sell at best_bid for a negative one, of volume
\* |delta|, puts it at the head of the ledger and sets current_position to
\* desired.
C1_RebalanceExecutesOneOrder ==
    [][ (RebalanceStep /\ last_call'.arg # current_position
                       /\ HasKey("order_book"))
        => /\ ~last_call'.raised
           /\ all_orders' =
                <<ExpectedOrder(current_position, last_call'.arg)>> \o all_orders
           /\ Len(cashflows') = Len(cashflows) + 1
           /\ Len(turnover') = Len(turnover) + 1
           /\ current_position' = last_call'.arg ]_vars

C1_Witness ==
    /\ last_call.op = "rebalance_position"
    /\ ~last_call.raised
    /\ last_call.pos_before > last_call.arg
    /\ current_position = last_call.arg
    /\ Len(all_orders) >= 2
    /\ all_orders[1].side = "sell"
    /\ all_orders[1].volume >= 2
    /\ all_orders[1].trade_price = Bid

\* C2: rebalance_position called again with the desired position of the
\* call before it, or with desired = current_position, adds no ledger entry
\* and leaves current_position and the current profit unchanged.
C2_RebalanceIdempotent ==
    [][ (RebalanceStep /\ (\/ last_call'.arg = current_position
                           \/ /\ last_call.op = "rebalance_position"
                              /\ last_call.arg = last_call'.arg))
        => /\ UNCHANGED <<current_position, cashflows, turnover, all_orders>>
           /\ get_current_profit_value' = get_current_profit_value ]_vars

C2_Witness ==
    /\ last_call.op = "rebalance_position"
    /\ ~last_call.raised
    /\ last_call.arg = last_call.pos_before
    /\ current_position = last_call.arg
    /\ current_position # 0
    /\ all_orders # <<>>

\* C3: get_current_profit returns the sum of the ledger cashflows plus
\* current_position * best_bid for a long position, current_position *
\* best_ask for a short one and 0 for a flat one, at the stored snapshot.
C3_ProfitIsRealizedPlusUnrealized ==
    last_call.op = "get_current_profit"
    => /\ ~last_call.raised
       /\ last_call.value =
             SumSeq(cashflows)
             + (IF current_position > 0
                THEN current_position * market_state.order_book.bids[1].price
                ELSE IF current_position < 0
                     THEN current_position * market_state.order_book.asks[1].price
                     ELSE 0)

C3_Witness ==
    /\ last_call.op = "get_current_profit"
    /\ current_position < 0
    /\ Len(cashflows) >= 2
    /\ last_call.value = SumSeq(cashflows) + current_position * Ask
    /\ last_call.value < 0

\* C4: a rebalance from p to p + v (v > 0) followed at once, at the same
\* quotes, by a rebalance back to p changes the cashflow sum by
\* -(best_ask - best_bid) * v over the two calls and leaves the position p.
C4_RoundTripCostsSpread ==
    [][ (/\ last_call.op = "rebalance_position"
         /\ ~last_call.raised
         /\ last_call.arg > last_call.pos_before
         /\ RebalanceStep
         /\ last_call'.arg = last_call.pos_before)
        => /\ current_position' = last_call.pos_before
           /\ SumSeq(cashflows') =
                last_call.realized_before
                - (Ask - Bid) * (last_call.arg - last_call.pos_before) ]_vars

C4_Witness ==
    /\ last_call.op = "rebalance_position"
    /\ ~last_call.raised
    /\ Len(all_orders) >= 2
    /\ all_orders[1].side = "sell"
    /\ all_orders[2].side = "buy"
    /\ all_orders[1].volume = 2
    /\ all_orders[2].volume = 2
    /\ all_orders[1].order_id = all_orders[2].order_id
    /\ last_call.pos_before = current_position + 2
    /\ cashflows[1] + cashflows[2] = 0 - (Ask - Bid) * 2

\* C5: rebalance_position called while no snapshot was ever supplied fails,
\* and leaves current_position and the three ledger lists as they were.
C5_RebalanceWithoutSnapshotFails ==
    (last_call.op = "rebalance_position" /\ ~HasKey("order_book"))
    => /\ last_call.raised
       /\ current_position = last_call.pos_before
       /\ cashflows = <<>> /\ turnover = <<>> /\ all_orders = <<>>

\* C6: get_current_profit called while no snapshot was ever supplied fails
\* instead of returning a number, whatever the position.
C6_ValuationWithoutSnapshotFails ==
    (last_call.op \in {"get_current_profit", "current_position_value"}
       /\ ~HasKey("order_book"))
    => last_call.raised

\* C7: every step leaves the ledger as it is or puts exactly one new entry
\* at index 0 of each of the three lists, the old entries following in their
\* old order; only rebalance_position adds an entry.
C7_LedgerAppendOnlyNewestFirst ==
    [][ \/ UNCHANGED <<cashflows, turnover, all_orders>>
        \/ /\ RebalanceStep
           /\ Len(all_orders') = Len(all_orders) + 1
           /\ Len(cashflows') = Len(cashflows) + 1
           /\ Len(turnover') = Len(turnover) + 1
           /\ Tail(all_orders') = all_orders
           /\ Tail(cashflows') = cashflows
           /\ Tail(turnover') = turnover ]_vars

C7_Witness ==
    /\ last_call.op = "rebalance_position"
    /\ Len(all_orders) = 3
    /\ all_orders[1] # all_orders[2]
    /\ all_orders[2] # all_orders[3]
    /\ last_call.realized_before = cashflows[2] + cashflows[3]

\* C8: a step of update_market_state, get_current_profit,
\* current_position_value or get_last_order leaves current_position,
\* cashflows, turnover and all_orders unchanged, and only
\* update_market_state changes the stored snapshot.
C8_OnlyRebalanceMutates ==
    [][ /\ (~RebalanceStep)
           => UNCHANGED <<current_position, cashflows, turnover, all_orders>>
        /\ (last_call'.op # "update_market_state")
           => UNCHANGED market_state ]_vars

C8_Witness ==
    /\ last_call.op = "update_market_state"
    /\ last_call.pos_before # 0
    /\ current_position = last_call.pos_before
    /\ Len(all_orders) >= 2
    /\ market_state.time # all_orders[1].order_id

\* C9: get_last_order returns the head of the ledger, which right after a
\* rebalance that executed an order is that order, and the "-" sentinel
\* when the ledger is empty.
C9_LastOrderIsLedgerHead ==
    [][ (last_call'.op = "get_last_order")
        => /\ ~last_call'.raised
           /\ last_call'.order =
                (IF Len(all_orders) = 0 THEN NoOrder ELSE Head(all_orders))
           /\ (/\ last_call.op = "rebalance_position"
               /\ ~last_call.raised
               /\ last_call.arg # last_call.pos_before)
              => last_call'.order =
                   ExpectedOrder(last_call.pos_before, last_call.arg) ]_vars

C9_Witness ==
    /\ last_call.op = "get_last_order"
    /\ Len(all_orders) >= 2
    /\ all_orders[1] # all_orders[Len(all_orders)]
    /\ last_call.order = all_orders[1]

\* C10: every executed order has a side of buy or sell and a volume >= 0,
\* and the cashflow recorded for it is -price * volume for a buy and
\* +price * volume for a sell.
C10_OrderVolumeAndCashflow ==
    \A i \in 1..Len(all_orders) :
        LET o == all_orders[i]
        IN  /\ o.side \in {"buy", "sell"}
            /\ o.volume >= 0
            /\ get_cashflow(o) = (IF o.side = "buy"
                                  THEN 0 - o.trade_price * o.volume
                                  ELSE o.trade_price * o.volume)
            /\ cashflows[i] = get_cashflow(o)

C10_Witness ==
    /\ Len(all_orders) >= 2
    /\ \E i, j \in 1..Len(all_orders) :
          /\ all_orders[i].side = "buy" /\ cashflows[i] < 0
          /\ all_orders[j].side = "sell" /\ cashflows[j] > 0
          /\ all_orders[j].volume >= 2

\* ---------------------------------------------------- claims: market views
\* The side of the book an obwa call reads.
SideOf(side) == IF side = "bid" THEN order_book.bids ELSE order_book.asks

MaxPrice(arr) ==
    CHOOSE p \in {arr[k].price : k \in 1..Len(arr)} :
        \A k \in 1..Len(arr) : arr[k].price <= p

MinPrice(arr) ==
    CHOOSE p \in {arr[k].price : k \in 1..Len(arr)} :
        \A k \in 1..Len(arr) : p <= arr[k].price

RECURSIVE Picked(_, _, _)
\* the entries of a from i on whose index is in S, in their order
Picked(a, S, i) ==
    IF i > Len(a) THEN <<>>
    ELSE (IF i \in S THEN <<a[i]>> ELSE <<>>) \o Picked(a, S, i + 1)

\* sum(price * volume) / sum(volume) over the entries of arr with an index
\* in S, every product, sum and the quotient in float64
WeightedPrice(arr, S) ==
    FloatDiv[np_sum[Picked([k \in 1..Len(arr) |->
                               FloatMulInt[Volumes(arr)[k], arr[k].price]],
                           S, 1)],
             np_sum[Picked(Volumes(arr), S, 1)]]

\* The call returned the number n / d.
ReturnedRatio(r, n, d) == r = Returned(PyFloat(n, d))

\* C11: on a book with quotes, best_bid is the maximum bid price, best_ask
\* the minimum ask price, and midprice the mean of the two.
C11_BestQuotesAreExtremes ==
    /\ (data_call.op = "best_bid" /\ Len(order_book.bids) > 0)
       => ReturnedRatio(data_call.result, MaxPrice(order_book.bids), 1)
    /\ (data_call.op = "best_ask" /\ Len(order_book.asks) > 0)
       => ReturnedRatio(data_call.result, MinPrice(order_book.asks), 1)
    /\ (data_call.op = "midprice" /\ Len(order_book.bids) > 0
                                  /\ Len(order_book.asks) > 0)
       => ReturnedRatio(data_call.result,
             MaxPrice(order_book.bids) + MinPrice(order_book.asks), 2)

C11_Witness ==
    /\ data_call.op = "midprice"
    /\ order_book = parse_orderbook_into_arr(RawB)
    /\ data_call.result = Returned(PyFloat(43, 2))

RECURSIVE RunningVolume(_, _)
\* The cumulative volume of the first i entries, added up in float64.
RunningVolume(arr, i) ==
    IF i = 1 THEN Volumes(arr)[1]
    ELSE FloatAdd[RunningVolume(arr, i - 1), Volumes(arr)[i]]

\* The entries obwa has to include at a depth: those whose cumulative
\* volume is <= total_volume * depth / 100, both as the program computes
\* them in float64, else the first.
Within(arr, depth) ==
    {i \in 1..Len(arr) :
        FloatLeq[RunningVolume(arr, i),
                 FloatDivInt[FloatMulInt[np_sum[Volumes(arr)], depth], 100]]}

Included(arr, depth) ==
    IF Within(arr, depth) = {} THEN {1} ELSE Within(arr, depth)

\* C12: obwa(side, depth) on a non-empty side returns sum(price * volume) /
\* sum(volume) over exactly the entries whose cumulative volume is <=
\* total_volume * depth / 100, or over the first entry alone when there
\* is none, all of it as computed in float64; on the ten-level unit-volume
\* bid side 19..10 it returns 19 at depth 1, 17 at depth 50 and 14.5 at
\* depth 100.
C12_ObwaIncludesWithinTarget ==
    (data_call.op = "obwa" /\ data_call.side \in {"bid", "ask"}
       /\ data_call.depth >= 0 /\ Len(SideOf(data_call.side)) > 0)
    => LET arr == SideOf(data_call.side)
           S == Included(arr, data_call.depth)
       IN  /\ data_call.result = Returned(WeightedPrice(arr, S))
           /\ (order_book = parse_orderbook_into_arr(RawTen)
                 /\ data_call.side = "bid")
              => /\ data_call.depth = 1
                    => ReturnedRatio(data_call.result, 19, 1)
                 /\ data_call.depth = 50
                    => ReturnedRatio(data_call.result, 17, 1)
                 /\ data_call.depth = 100
                    => ReturnedRatio(data_call.result, 29, 2)

C12_Witness ==
    /\ data_call = DataCall("obwa", "bid", 50, Returned(PyFloat(17, 1)))
    /\ order_book = parse_orderbook_into_arr(RawTen)

\* C13: obwa returns None, and does not raise, whenever depth is below 0 or
\* above 100 or side is neither "bid" nor "ask".
C13_ObwaRejectsInvalidParameters ==
    (data_call.op = "obwa"
       /\ (\/ data_call.depth < 0
           \/ data_call.depth > 100
           \/ data_call.side \notin {"bid", "ask"}))
    => data_call.result = ReturnedNone

C15_ObwaDepthHundredIsWholeSide ==
    (data_call.op = "obwa" /\ data_call.side \in {"bid", "ask"}
       /\ data_call.depth = 100 /\ Len(SideOf(data_call.side)) > 0)
    => LET arr == SideOf(data_call.side)
       IN  data_call.result = Returned(WeightedPrice(arr, 1..Len(arr)))

\* C16: with an empty bid side best_bid fails, with an empty ask side
\* best_ask fails, and with either side empty midprice fails; none of them
\* returns a price.
C16_EmptySideFails ==
    /\ (data_call.op = "best_bid" /\ Len(order_book.bids) = 0)
       => data_call.result = Raised
    /\ (data_call.op = "best_ask" /\ Len(order_book.asks) = 0)
       => data_call.result = Raised
    /\ (data_call.op = "midprice"
          /\ (Len(order_book.bids) = 0 \/ Len(order_book.asks) = 0))
       => data_call.result = Raised

C16_Witness ==
    /\ data_call.op = "midprice"
    /\ Len(order_book.bids) = 0
    /\ Len(order_book.asks) > 0
    /\ data_call.result = Raised

\* C17: last_price returns the close of a bar whose timestamp is the
\* maximum of the sequence, wherever that bar sits, and fails on an empty
\* sequence.
C17_LastPriceIsCloseOfLatestBar ==
    data_call.op = "last_price"
    => IF Len(public_trades.ohlc) = 0
       THEN data_call.result = Raised
       ELSE \E i \in 1..Len(public_trades.ohlc) :
               /\ \A j \in 1..Len(public_trades.ohlc) :
                     public_trades.ohlc[j].timestamp <= public_trades.ohlc[i].timestamp
               /\ data_call.result =
                     Returned(FloatOfInt[public_trades.ohlc[i].close])

C17_Witness ==
    /\ data_call.op = "last_price"
    /\ public_trades.ohlc = <<Bar(2, 17), Bar(5, 24), Bar(4, 30)>>
    /\ data_call.result = Returned(PyFloat(24, 1))

\* x - y > th, the difference in float64
Exceeds(x, y, th) == FloatLess[th, FloatSub[x, y]]

\* The SOBI rule: buy on ask-side excess, sell on bid-side excess.
SignalRule(imb_bid, imb_ask, th) ==
    IF Exceeds(imb_ask, imb_bid, th) THEN 1
    ELSE IF Exceeds(imb_bid, imb_ask, th) THEN 0 - 1
    ELSE 0

\* The insertions, by their number, that the rolling window may hold: the
\* latest window_size of them.
LatestInsertions ==
    {n \in 1..Len(imbalance_log) : n > Len(imbalance_log) - window_size}

\* C18: the rolling window never holds more than window_size pairs, and
\* what it holds are insertions among the latest window_size, newest
\* first; so once window_size + 1 pairs were inserted the first one is not
\* in it.
C18_WindowHoldsLatestPairs ==
    /\ Len(last_imbalances) <= window_size
    /\ \A i \in 1..Len(last_imbalances) :
          /\ Len(imbalance_log) + 1 - i \in LatestInsertions
          /\ last_imbalances[i] = imbalance_log[Len(imbalance_log) + 1 - i]
    /\ Len(imbalance_log) >= window_size + 1 => 1 \notin LatestInsertions

C18_Witness ==
    /\ Len(imbalance_log) = window_size + 1
    /\ Len(last_imbalances) = window_size
    /\ \A i \in 1..Len(last_imbalances) :
          last_imbalances[i] # imbalance_log[1]

\* C19: _calc_signal returns +1 only when imb_ask - imb_bid > theta and -1
\* only when imb_bid - imb_ask > theta; for theta >= 0 the two conditions
\* never hold together and the result is +1 exactly on the first, -1
\* exactly on the second, 0 exactly when neither holds.
C19_CalcSignalFollowsRule ==
    strategy_call.op = "_calc_signal"
    => LET buy == Exceeds(strategy_call.imb_ask, strategy_call.imb_bid, theta)
           sell == Exceeds(strategy_call.imb_bid, strategy_call.imb_ask, theta)
       IN  /\ strategy_call.result \in {0 - 1, 0, 1}
           /\ strategy_call.result = 1 <=> buy
           /\ strategy_call.result = 0 - 1 => sell
           /\ FloatLeq[FloatZero, theta]
              => /\ ~(buy /\ sell)
                 /\ strategy_call.result = 0 - 1 <=> sell
                 /\ strategy_call.result = 0 <=> (~buy /\ ~sell)

C19_Witness ==
    /\ strategy_call.op = "_calc_signal"
    /\ theta = PyFloat(2, 1)
    /\ strategy_call.imb_bid = PyFloat(0, 1)
    /\ strategy_call.imb_ask = PyFloat(2, 1)
    /\ strategy_call.result = 0

RECURSIVE FloatSumTo(_, _)
\* s[1] + ... + s[n] in float64, added from the first on
FloatSumTo(s, n) ==
    IF n = 1 THEN s[1] ELSE FloatAdd[FloatSumTo(s, n - 1), s[n]]

\* The mean of the floats of a sequence: their sum over their number
MeanOf(s) == FloatDivInt[FloatSumTo(s, Len(s)), Len(s)]

\* The SOBI rule on the elementwise mean of the pairs in the window
WindowSignal ==
    SignalRule(MeanOf([k \in 1..Len(last_imbalances) |->
                          last_imbalances[k][1]]),
               MeanOf([k \in 1..Len(last_imbalances) |->
                          last_imbalances[k][2]]),
               theta)

\* The calls that run update_signals, when they return.
SignalsComputed ==
    /\ strategy_call.op \in {"update_market_state", "update_signals"}
    /\ ~strategy_call.raised

\* C20: the signals change only in a call that runs update_signals and
\* after which the window holds exactly window_size pairs; before the
\* window_size-th insertion trade_signal is 0, and after every update from
\* it onward trade_signal is the rolling signal, the rule on the
\* elementwise mean of all pairs in the window.
C20_RollingSignalOnFullWindow ==
    /\ [](Len(imbalance_log) < window_size
            => /\ trade_signal = 0
               /\ signals = [current |-> 0, rolling |-> 0])
    /\ []((SignalsComputed /\ Len(imbalance_log) >= window_size)
            => /\ Len(last_imbalances) = window_size
               /\ signals.rolling = WindowSignal
               /\ trade_signal = signals.rolling)
    /\ []((trade_signal # 0 \/ signals # [current |-> 0, rolling |-> 0])
            => trade_signal = signals.rolling)
    /\ [][(signals' # signals \/ trade_signal' # trade_signal)
            => /\ Len(last_imbalances') = window_size
               /\ strategy_call'.op \in {"update_market_state",
                                         "update_signals"}
               /\ ~strategy_call'.raised]_all_vars

C20_Witness ==
    /\ window_size = 2
    /\ Len(imbalance_log) = 3
    /\ signals.current = 1
    /\ signals.rolling = 0 - 1
    /\ trade_signal = 0 - 1

\* C21: once the rolling window holds window_size pairs (READY), no later
\* update leaves it with fewer (it never returns to WARMING).
C21_NeverBackToWarming ==
    [][Len(last_imbalances) = window_size
         => Len(last_imbalances') = window_size]_all_vars

C21_Witness ==
    /\ Len(imbalance_log) > window_size
    /\ Len(last_imbalances) = window_size
    /\ strategy_call.op = "update_market_state"
    /\ strategy_call.raised

\* The indicators of a tick that could not supply them.
UnavailableIndicators ==
    [vw_bid |-> ReturnedNone, vw_ask |-> ReturnedNone,
     imb_bid |-> ReturnedNone, imb_ask |-> ReturnedNone,
     rolling_imb_bid |-> ReturnedNone, rolling_imb_ask |-> ReturnedNone]

\* C22: an update on a market state that cannot supply a valid indicator
\* (empty book side, no trade bars, obwa returning None) completes without
\* an exception, holds the previous trade_signal and reports the
\* indicators as unavailable.
C22_DegradedTickHoldsSignal ==
    [][(/\ strategy_call'.op = "update_market_state"
        /\ strategy_market_state' \in StrategyStates
        /\ update_indicators_raises(strategy_market_state'))
         => /\ ~strategy_call'.raised
            /\ trade_signal' = trade_signal
            /\ indicators' = UnavailableIndicators]_all_vars

\* C25: after every completed update signals["current"] is the
\* instantaneous signal of that update's (imb_bid, imb_ask) pair, also
\* while the window is below capacity.
C25_CurrentSignalEveryTick ==
    (strategy_call.op = "update_market_state" /\ ~strategy_call.raised)
    => signals.current =
          SignalRule(strategy_call.imb_bid, strategy_call.imb_ask, theta)

\* C26: desired_position returns trade_signal * position_size for the
\* trade_signal the strategy holds when it is read.
C26_DesiredPositionIsSignalTimesSize ==
    strategy_call.op = "desired_position"
    => /\ ~strategy_call.raised
       /\ strategy_call.result = trade_signal * position_size

C26_Witness ==
    /\ strategy_call.op = "desired_position"
    /\ trade_signal = 0 - 1
    /\ position_size = 2
    /\ strategy_call.result = 0 - 2

\* C27: desired_position read before any update_market_state completed
\* fails instead of returning a position.
C27_DesiredPositionBeforeUpdateFails ==
    (strategy_call.op = "desired_position" /\ Len(imbalance_log) = 0)
    => strategy_call.raised

\* ---------------------------------------------- claims: trend and driver
\* C23: TrendStrategy._calc_signal returns +1 when adx_idx > adx_threshold
\* and adx_pos > adx_neg, -1 when adx_idx > adx_threshold and
\* adx_neg > adx_pos, 0 when adx_idx > adx_threshold and the two are
\* equal, and 0 when adx_idx <= adx_threshold.
C23_TrendSignalRule ==
    trend_call.op = "_calc_signal"
    => trend_call.result =
          (IF trend_call.adx_idx > adx_threshold
           THEN IF trend_call.adx_pos > trend_call.adx_neg THEN PyInt(1)
                ELSE IF trend_call.adx_neg > trend_call.adx_pos
                     THEN PyInt(0 - 1)
                     ELSE PyInt(0)
           ELSE PyInt(0))

\* C24: in every state of a SobiStrategy and of a TrendStrategy every
\* value of the signals mapping, and trade_signal, is -1, 0 or +1.
C24_SignalsAreTernary ==
    /\ signals.current \in {0 - 1, 0, 1}
    /\ signals.rolling \in {0 - 1, 0, 1}
    /\ trade_signal \in {0 - 1, 0, 1}
    /\ trend_signals.current \in {PyInt(0 - 1), PyInt(0), PyInt(1)}
    /\ trend_trade_signal \in {PyInt(0 - 1), PyInt(0), PyInt(1)}

\* The statements of a tick in the order the claim gives them, after the
\* feed; a pair of the relation is a statement and its successor.
TickSteps == <<"get_market_data", "strategy_update", "desired_position",
               "engine_update", "rebalance_position", "get_current_profit",
               "get_last_order">>

TickOrder ==
    {<<TickSteps[k], TickSteps[k + 1]>> : k \in 1..(Len(TickSteps) - 1)}
    \cup {<<TickSteps[Len(TickSteps)], TickSteps[1]>>}

\* The order that takes the position from `from` to `to` at the snapshot
\* the strategy consumed.
OrderAtStrategySnapshot(from, to) ==
    [order_id |-> strategy_market_state.time,
     side |-> IF to > from THEN "buy" ELSE "sell",
     trade_price |-> IF to > from
                     THEN best_ask(strategy_market_state.order_book)
                     ELSE best_bid(strategy_market_state.order_book),
     volume |-> IF to > from THEN to - from ELSE from - to]

\* C28: within a tick the statements run in the order strategy update,
\* desired position, simulator update_market_state, rebalance_position,
\* get_current_profit, get_last_order; the simulator therefore holds the
\* snapshot of the tick when it rebalances, and an order executed in a
\* tick is priced from the snapshot the strategy consumed in that tick.
C28_TickOrderAndSnapshot ==
    /\ [][pc' # pc => (pc' = "crashed" \/ <<pc, pc'>> \in TickOrder)]_all_vars
    /\ [](pc \in {"desired_position", "engine_update", "rebalance_position",
                  "get_current_profit", "get_last_order"}
            => strategy_market_state = tick_market_state)
    /\ [](pc \in {"rebalance_position", "get_current_profit",
                  "get_last_order"}
            => market_state = tick_market_state)
    /\ [][all_orders' # all_orders
            => /\ pc = "rebalance_position"
               /\ current_position' = tick_desired_position
               /\ all_orders' =
                    <<OrderAtStrategySnapshot(current_position,
                                              current_position')>>
                    \o all_orders]_all_vars

C28_Witness ==
    /\ pc = "get_current_profit"
    /\ Len(all_orders) = 2
    /\ all_orders[1].order_id = tick_market_state.time
    /\ all_orders[1].order_id # all_orders[2].order_id
    /\ all_orders[1].side = "sell"
    /\ all_orders[1].trade_price = best_bid(tick_market_state.order_book)
    /\ all_orders[1].trade_price # all_orders[2].trade_price

\* --------------------------------------------- claims: ledger invariants
RECURSIVE SignedVolume(_)
\* Sum of +volume for the buy orders and -volume for the sell orders.
SignedVolume(orders) ==
    IF orders = <<>> THEN 0
    ELSE (IF Head(orders).side = "buy" THEN Head(orders).volume
          ELSE 0 - Head(orders).volume) + SignedVolume(Tail(orders))

\* C29: current_position is the sum, over the ledger, of the signed order
\* volumes: +volume for a buy, -volume for a sell.
C29_PositionIsSignedLedgerSum ==
    current_position = SignedVolume(all_orders)

C29_Witness ==
    /\ Len(all_orders) = 3
    /\ all_orders[1].side = "sell"
    /\ all_orders[2].side = "buy"
    /\ all_orders[3].side = "sell"
    /\ current_position = 0 - 2

\* C30: cashflows, turnover and all_orders have the same length, and at
\* every index the order has a positive volume, the turnover is that
\* volume and the cashflow is the order's get_cashflow(); no order of
\* volume zero is recorded.
C30_LedgerListsAligned ==
    /\ Len(cashflows) = Len(all_orders)
    /\ Len(turnover) = Len(all_orders)
    /\ \A i \in 1..Len(all_orders) :
          /\ all_orders[i].volume > 0
          /\ turnover[i] = all_orders[i].volume
          /\ cashflows[i] = get_cashflow(all_orders[i])

C30_Witness ==
    /\ Len(all_orders) = 3
    /\ last_call.op = "rebalance_position"
    /\ last_call.arg = last_call.pos_before
    /\ turnover = <<1, 4, 2>>
    /\ all_orders[2].side = "sell"

\* ------------------------------------------------ claims: cost of trading
\* The part of a rebalance from `from` to `to` that extends or opens
\* exposure: the growth of the absolute position on one side, or all of
\* the new position when the rebalance changes sides.
ExtendingVolume(from, to) ==
    IF (from >= 0 /\ to >= 0) \/ (from <= 0 /\ to <= 0)
    THEN (IF Abs(to) > Abs(from) THEN Abs(to) - Abs(from) ELSE 0)
    ELSE Abs(to)

\* Every order of the ledger was executed at the quotes of the stored
\* snapshot: the quotes were the same whenever the simulator traded.
TradedAtCurrentQuotes ==
    \A i \in 1..Len(all_orders) :
        all_orders[i].trade_price =
            (IF all_orders[i].side = "buy" THEN Ask ELSE Bid)

\* C31: at quotes that are not crossed, a rebalance_position lowers
\* get_current_profit() by (best_ask - best_bid) times the volume that
\* extends or opens exposure and leaves it unchanged for volume that only
\* reduces exposure, so it never raises it; with the quotes the same at
\* every trade since the flat start the profit is <= 0.
C31_RebalanceNeverGainsAtConstantQuotes ==
    /\ [][(RebalanceStep /\ HasKey("order_book") /\ Bid <= Ask)
            => /\ get_current_profit_value' <= get_current_profit_value
               /\ get_current_profit_value' =
                    get_current_profit_value
                    - (Ask - Bid) * ExtendingVolume(current_position,
                                                    current_position')]_vars
    /\ []((HasKey("order_book") /\ Bid <= Ask /\ TradedAtCurrentQuotes)
            => get_current_profit_value <= 0)

C31_Witness ==
    /\ last_call.op = "rebalance_position"
    /\ last_call.pos_before = 2
    /\ current_position = 0 - 1
    /\ Len(all_orders) = 2
    /\ TradedAtCurrentQuotes
    /\ get_current_profit_value = 0 - 3 * (Ask - Bid)

\* ------------------------------------------- claims: the rolling indicators
\* The number of pairs the window has to hold after the updates so far.
ExpectedWindowLength ==
    IF Len(imbalance_log) < window_size THEN Len(imbalance_log)
    ELSE window_size

\* The pairs of the latest n insertions.
LatestPairs(n) ==
    SubSeq(imbalance_log, Len(imbalance_log) - n + 1, Len(imbalance_log))

\* m is the mean of the numbers of the sequence s.
IsMeanOf(m, s) == m = Returned(MeanOf(s))

\* C32: after k updates last_imbalances holds exactly the
\* min(k, window_size) most recent pairs, the latest at index 0, and the
\* rolling_imb_bid and rolling_imb_ask indicators are the elementwise mean
\* of exactly those pairs.
C32_WindowAndRollingMeans ==
    LET n == ExpectedWindowLength
        latest == LatestPairs(n)
    IN  /\ Len(last_imbalances) = n
        /\ \A i \in 1..n : last_imbalances[i] = latest[n + 1 - i]
        /\ n >= 1
           => /\ IsMeanOf(indicators.rolling_imb_bid,
                          [i \in 1..n |-> latest[n + 1 - i][1]])
              /\ IsMeanOf(indicators.rolling_imb_ask,
                          [i \in 1..n |-> latest[n + 1 - i][2]])

C32_Witness ==
    /\ window_size = 2
    /\ Len(imbalance_log) = 3
    /\ last_imbalances[1] = <<PyFloat(0, 1), PyFloat(3, 1)>>
    /\ last_imbalances[2] = <<PyFloat(3, 1), PyFloat(0 - 1, 1)>>
    /\ imbalance_log[1] = <<PyFloat(1, 1), PyFloat(1, 1)>>
    /\ indicators.rolling_imb_bid = Returned(PyFloat(3, 2))
    /\ indicators.rolling_imb_ask = Returned(PyFloat(1, 1))
====
